---- MODULE Spec2Model ----
(***************************************************************************)
(* Editing session of the Kulsi-AI note editor.                            *)
(*                                                                         *)
(*   Editor        (src/src/components/Editor.jsx, second component,       *)
(*                  lines 1043-2425): title, content, history stack,       *)
(*                  undo/redo, debounced autosave, AI enhancement.         *)
(*   TipTapEditor  (src/src/components/TipTapEditor.jsx): the native       *)
(*                  document, htmlToMarkdown / markdownToHtml, the         *)
(*                  onUpdate callback and the value-sync effect.           *)
(*                                                                         *)
(* A markdown string is a sequence of one-character strings.  An HTML      *)
(* string is a sequence of DOM nodes [tag, attr, kids]; a text node holds  *)
(* one character in attr.  The markdown alphabet of the inputs is          *)
(*   a b x X u r l - [ ] ( ) ! # 1 . ~ backtick space newline              *)
(* so the regular expressions of markdownToHtml that need another          *)
(* character (> * _) match nowhere and are the identity on every string    *)
(* of the model.  An <a> carries its href, an <img> its src and alt, as    *)
(* sequences of characters.  A link, an image, a struck-through text or a  *)
(* code span is looked for in a run of nodes of one element, not across a  *)
(* tag.  The two tags of a code block stay single nodes of the string     *)
(* until the string is parsed, so that the line anchors of the later       *)
(* regular expressions see the lines of the code as the source does.       *)
(***************************************************************************)
EXTENDS Integers, Sequences, FiniteSets, TLC

NL == "\n"

\* \s of a JavaScript regular expression, over the alphabet
Ws == {" ", NL}

(***************************************************************************)
(* DOM nodes                                                               *)
(***************************************************************************)
Node(tag, attr, kids) == [tag |-> tag, attr |-> attr, kids |-> kids]

TextNode(c) == Node("#text", c, <<>>)

IsText(n) == n.tag = "#text"

IsChar(n, c) == n.tag = "#text" /\ n.attr = c

IsWsNode(n) == n.tag = "#text" /\ n.attr \in Ws

ToNodes(s) == [i \in 1..Len(s) |-> TextNode(s[i])]

\* String.prototype.trim on a sequence whose white-space elements are ws
RECURSIVE TrimLeft(_, _)
TrimLeft(s, ws) ==
  IF s # <<>> /\ Head(s) \in ws THEN TrimLeft(Tail(s), ws) ELSE s

RECURSIVE TrimRight(_, _)
TrimRight(s, ws) ==
  IF s # <<>> /\ s[Len(s)] \in ws THEN TrimRight(SubSeq(s, 1, Len(s) - 1), ws) ELSE s

\* trim of a markdown string
Trim(s) == TrimRight(TrimLeft(s, Ws), Ws)

WsNodes == {TextNode(c) : c \in Ws}

\* trim of an HTML string
TrimNodes(h) == TrimRight(TrimLeft(h, WsNodes), WsNodes)

(***************************************************************************)
(* markdownToHtml                                                          *)
(***************************************************************************)
\* first index >= i of h that is not white space (Len(h)+1 when none): \s*
RECURSIVE SkipWs(_, _)
SkipWs(h, i) ==
  IF i <= Len(h) /\ IsWsNode(h[i]) THEN SkipWs(h, i + 1) ELSE i

\* last index of the line that position i is on (i-1 when i is at a line
\* end): where (.*)$ stops, "." matching everything but a newline
RECURSIVE LineEnd(_, _)
LineEnd(h, i) ==
  IF i <= Len(h) /\ ~IsChar(h[i], NL) THEN LineEnd(h, i + 1) ELSE i - 1

\* ^ under the m flag
AtLineStart(h, i) == i = 1 \/ IsChar(h[i - 1], NL)

IsMarker(n) == IsChar(n, "-") \/ IsChar(n, "*")

\* U+0060, the character of code spans and fences
Backtick == "backtick"

\* ``` at position i
IsFence(h, i) ==
  i + 2 <= Len(h) /\ \A k \in i..(i + 2) : IsChar(h[k], Backtick)

\* <pre><code> and </code></pre> as they stand in the string
PreOpen == Node("<pre><code>", "", <<>>)

PreClose == Node("</code></pre>", "", <<>>)

\* /```(.*?)\n([\s\S]*?)\n```/g at position i: the index of the newline
\* before the closing fence (0 when no match).  (.*?) runs to the end of the
\* line of the opening fence, ([\s\S]*?) to the first newline that a fence
\* follows.
CodeClose(h, i) ==
  IF IsFence(h, i) /\ LineEnd(h, i + 3) + 1 <= Len(h)
        /\ \E c \in (LineEnd(h, i + 3) + 2)..Len(h) :
              IsChar(h[c], NL) /\ IsFence(h, c + 1)
  THEN CHOOSE c \in (LineEnd(h, i + 3) + 2)..Len(h) :
         /\ IsChar(h[c], NL) /\ IsFence(h, c + 1)
         /\ \A d \in (LineEnd(h, i + 3) + 2)..(c - 1) :
              ~(IsChar(h[d], NL) /\ IsFence(h, d + 1))
  ELSE 0

RECURSIVE ReplaceCodeBlocks(_, _)
\* <pre><code>${code}</code></pre> for the match from i that closes at c
ReplaceCodeBlockAt(h, i, c) ==
  IF c = 0 THEN <<h[i]>> \o ReplaceCodeBlocks(h, i + 1)
  ELSE <<PreOpen>> \o SubSeq(h, LineEnd(h, i + 3) + 2, c - 1) \o <<PreClose>>
         \o ReplaceCodeBlocks(h, c + 4)

\* html.replace(<code block regex>, <pre><code>code</code></pre>)
ReplaceCodeBlocks(h, i) ==
  IF i > Len(h) THEN <<>> ELSE ReplaceCodeBlockAt(h, i, CodeClose(h, i))

\* (#{1,6}) at position i: the index of the last "#" of the run (i-1 when
\* there is none)
RECURSIVE HashRunEnd(_, _)
HashRunEnd(h, i) ==
  IF i <= Len(h) /\ IsChar(h[i], "#") THEN HashRunEnd(h, i + 1) ELSE i - 1

\* \s+(.+)$ after the "#" run that ends at r, j being the first index after
\* the white space: where (.+) starts, or 0.  \s+ is greedy; at the end of
\* the string it gives characters back until (.+) can start on a space.
HeadingTextStart(h, r, j) ==
  IF j = r + 1 THEN 0
  ELSE IF j <= Len(h) THEN j
  ELSE IF \E k \in (r + 2)..Len(h) : IsChar(h[k], " ")
       THEN CHOOSE k \in (r + 2)..Len(h) :
              /\ IsChar(h[k], " ")
              /\ \A m \in (k + 1)..Len(h) : ~IsChar(h[m], " ")
       ELSE 0

\* /^(#{1,6})\s+(.+)$/gm at position i: where the text starts, or 0
HeadingStart(h, i, r) ==
  IF AtLineStart(h, i) /\ r >= i /\ r - i + 1 <= 6
  THEN HeadingTextStart(h, r, SkipWs(h, r + 1))
  ELSE 0

HeadingTags == <<"h1", "h2", "h3", "h4", "h5", "h6">>

\* <h${level}>${text}</h${level}> for the match from i with text from m
HeadingNode(h, i, r, m) == Node(HeadingTags[r - i + 1], "", SubSeq(h, m, LineEnd(h, m)))

RECURSIVE ReplaceHeadings(_, _)
ReplaceHeadingAt(h, i, r, m) ==
  IF m = 0 THEN <<h[i]>> \o ReplaceHeadings(h, i + 1)
  ELSE <<HeadingNode(h, i, r, m)>> \o ReplaceHeadings(h, LineEnd(h, m) + 1)

ReplaceHeadingRun(h, i, r) == ReplaceHeadingAt(h, i, r, HeadingStart(h, i, r))

\* html.replace(<heading regex>, <hN>text</hN>)
ReplaceHeadings(h, i) ==
  IF i > Len(h) THEN <<>> ELSE ReplaceHeadingRun(h, i, HashRunEnd(h, i))

Digits == {"0", "1", "2", "3", "4", "5", "6", "7", "8", "9"}

IsDigit(n) == n.tag = "#text" /\ n.attr \in Digits

\* \d+ at position i: the index of the last digit of the run (i-1 when
\* there is none)
RECURSIVE DigitRunEnd(_, _)
DigitRunEnd(h, i) ==
  IF i <= Len(h) /\ IsDigit(h[i]) THEN DigitRunEnd(h, i + 1) ELSE i - 1

\* /^\d+\.\s*(.*?)$/gm at position i, d being the end of the digit run:
\* where the text starts, or 0
OrderedStart(h, i, d) ==
  IF AtLineStart(h, i) /\ d >= i /\ d + 1 <= Len(h) /\ IsChar(h[d + 1], ".")
  THEN SkipWs(h, d + 2)
  ELSE 0

RECURSIVE ReplaceOrdered(_, _)
ReplaceOrderedAt(h, i, m) ==
  IF m = 0 THEN <<h[i]>> \o ReplaceOrdered(h, i + 1)
  ELSE <<Node("li", "", SubSeq(h, m, LineEnd(h, m)))>>
         \o ReplaceOrdered(h, LineEnd(h, m) + 1)

\* html.replace(<ordered list regex>, <li>text</li>)
ReplaceOrdered(h, i) ==
  IF i > Len(h) THEN <<>>
  ELSE ReplaceOrderedAt(h, i, OrderedStart(h, i, DigitRunEnd(h, i)))

\* <li data-type="taskItem" data-checked=...><input type="checkbox"
\* [checked]><p>text</p></li>
TaskLi(checked, text) ==
  Node("li", IF checked THEN "taskItem:true" ELSE "taskItem:false",
       << Node("input", IF checked THEN "checked" ELSE "", <<>>),
          Node("p", "", text) >>)

IsTaskLi(n) == n.tag = "li" /\ n.attr \in {"taskItem:true", "taskItem:false"}

\* /^[\-\*]\s*\[\s*\]\s*(.*)$/gm at position i: the index of "]" or 0
UncheckedClose(h, i) ==
  IF ~(AtLineStart(h, i) /\ IsMarker(h[i])) THEN 0
  ELSE LET j == SkipWs(h, i + 1) IN
       IF ~(j <= Len(h) /\ IsChar(h[j], "[")) THEN 0
       ELSE LET k == SkipWs(h, j + 1) IN
            IF k <= Len(h) /\ IsChar(h[k], "]") THEN k ELSE 0

\* /^[\-\*]\s*\[x\]\s*(.*)$/gim at position i: the index of "]" or 0
CheckedClose(h, i) ==
  IF ~(AtLineStart(h, i) /\ IsMarker(h[i])) THEN 0
  ELSE LET j == SkipWs(h, i + 1) IN
       IF /\ j + 2 <= Len(h)
          /\ IsChar(h[j], "[")
          /\ (IsChar(h[j + 1], "x") \/ IsChar(h[j + 1], "X"))
          /\ IsChar(h[j + 2], "]")
       THEN j + 2 ELSE 0

\* html.replace(<task regex>, <li ...>): leftmost match, then on from its end
RECURSIVE ReplaceTasks(_, _, _)
ReplaceTasks(h, i, checked) ==
  IF i > Len(h) THEN <<>>
  ELSE LET close == IF checked THEN CheckedClose(h, i) ELSE UncheckedClose(h, i) IN
       IF close = 0 THEN <<h[i]>> \o ReplaceTasks(h, i + 1, checked)
       ELSE LET m == SkipWs(h, close + 1)
                e == LineEnd(h, m)
            IN  <<TaskLi(checked, TrimNodes(SubSeq(h, m, e)))>>
                  \o ReplaceTasks(h, e + 1, checked)

\* /(<li data-type="taskItem"[^>]*>.*?<\/li>)+/g -> <ul>match</ul>: every
\* maximal run of directly adjacent task items
RECURSIVE TaskRunEnd(_, _)
TaskRunEnd(h, i) ==
  IF i <= Len(h) /\ IsTaskLi(h[i]) THEN TaskRunEnd(h, i + 1) ELSE i - 1

RECURSIVE WrapTaskItems(_, _)
WrapTaskItems(h, i) ==
  IF i > Len(h) THEN <<>>
  ELSE IF IsTaskLi(h[i])
       THEN LET e == TaskRunEnd(h, i) IN
            <<Node("ul", "", SubSeq(h, i, e))>> \o WrapTaskItems(h, e + 1)
       ELSE <<h[i]>> \o WrapTaskItems(h, i + 1)

\* (?!\[[\s\]xX\]]) at position j: TRUE when the lookahead lets the match go on
NotTaskAhead(h, j) ==
  ~(/\ j + 2 <= Len(h)
    /\ IsChar(h[j], "[")
    /\ (IsWsNode(h[j + 1]) \/ IsChar(h[j + 1], "]")
          \/ IsChar(h[j + 1], "x") \/ IsChar(h[j + 1], "X"))
    /\ IsChar(h[j + 2], "]"))

\* /^[\-\*]\s+(?!\[[\s\]xX\]])(.*?)$/gm at position i: where the capture
\* starts, or 0.  \s+ is greedy and gives one character back when the
\* lookahead refuses.
BulletStart(h, i) ==
  IF ~(AtLineStart(h, i) /\ IsMarker(h[i])) THEN 0
  ELSE LET j == SkipWs(h, i + 1) IN
       IF j = i + 1 THEN 0
       ELSE IF NotTaskAhead(h, j) THEN j
       ELSE IF j - 1 > i + 1 THEN j - 1
       ELSE 0

RECURSIVE ReplaceBullets(_, _)
ReplaceBullets(h, i) ==
  IF i > Len(h) THEN <<>>
  ELSE LET m == BulletStart(h, i) IN
       IF m = 0 THEN <<h[i]>> \o ReplaceBullets(h, i + 1)
       ELSE LET e == LineEnd(h, m) IN
            <<Node("li", "", SubSeq(h, m, e))>> \o ReplaceBullets(h, e + 1)

IsPlainLi(n) == n.tag = "li" /\ \A k \in 1..Len(n.kids) : IsText(n.kids[k])

\* /(<li(?:\s+[^>]*)?>[^<]*<\/li>\n)+/g -> <ul>match</ul>: runs of list
\* items without markup inside, each followed by a newline
RECURSIVE LiRunEnd(_, _)
LiRunEnd(h, i) ==
  IF i + 1 <= Len(h) /\ IsPlainLi(h[i]) /\ IsChar(h[i + 1], NL)
  THEN LiRunEnd(h, i + 2) ELSE i - 1

RECURSIVE WrapListItems(_, _)
WrapListItems(h, i) ==
  IF i > Len(h) THEN <<>>
  ELSE LET e == LiRunEnd(h, i) IN
       IF e >= i
       THEN <<Node("ul", "", SubSeq(h, i, e))>> \o WrapListItems(h, e + 1)
       ELSE <<h[i]>> \o WrapListItems(h, i + 1)

\* the string of the nodes holds the character c
RECURSIVE Holds(_, _)
Holds(h, c) ==
  IF h = <<>> THEN FALSE
  ELSE IF IsText(Head(h)) /\ Head(h).attr = c THEN TRUE
  ELSE IF ~IsText(Head(h)) /\ Holds(Head(h).kids, c) THEN TRUE
  ELSE Holds(Tail(h), c)

\* ~~ at position i
IsTildes(h, i) == i + 1 <= Len(h) /\ IsChar(h[i], "~") /\ IsChar(h[i + 1], "~")

\* /~~(.*?)~~/g at position i: the index of the closing ~~ (0 when no
\* match); (.*?) takes the fewest characters and no newline
StrikeClose(h, i) ==
  IF IsTildes(h, i)
        /\ \E e \in (i + 2)..Len(h) :
              IsTildes(h, e) /\ ~Holds(SubSeq(h, i + 2, e - 1), NL)
  THEN CHOOSE e \in (i + 2)..Len(h) :
         /\ IsTildes(h, e) /\ ~Holds(SubSeq(h, i + 2, e - 1), NL)
         /\ \A d \in (i + 2)..(e - 1) : ~IsTildes(h, d)
  ELSE 0

RECURSIVE ReplaceStrike(_, _)
ReplaceStrikeAt(h, i, e) ==
  IF e = 0 THEN <<h[i]>> \o ReplaceStrike(h, i + 1)
  ELSE <<Node("s", "", SubSeq(h, i + 2, e - 1))>> \o ReplaceStrike(h, e + 2)

\* html.replace(/~~(.*?)~~/g, "<s>$1</s>")
ReplaceStrike(h, i) ==
  IF i > Len(h) THEN <<>>
  ELSE IF ~IsText(h[i])
  THEN <<[h[i] EXCEPT !.kids = ReplaceStrike(@, 1)]>> \o ReplaceStrike(h, i + 1)
  ELSE ReplaceStrikeAt(h, i, StrikeClose(h, i))

\* /`([^`]+)`/g at position i: the index of the closing backtick (0 when no
\* match); [^`]+ takes one character at least and stops at the first backtick
CodeSpanClose(h, i) ==
  IF IsChar(h[i], Backtick)
        /\ \E e \in (i + 2)..Len(h) :
              IsChar(h[e], Backtick) /\ ~Holds(SubSeq(h, i + 1, e - 1), Backtick)
  THEN CHOOSE e \in (i + 2)..Len(h) :
         IsChar(h[e], Backtick) /\ ~Holds(SubSeq(h, i + 1, e - 1), Backtick)
  ELSE 0

RECURSIVE ReplaceInlineCode(_, _)
ReplaceInlineCodeAt(h, i, e) ==
  IF e = 0 THEN <<h[i]>> \o ReplaceInlineCode(h, i + 1)
  ELSE <<Node("code", "", SubSeq(h, i + 1, e - 1))>> \o ReplaceInlineCode(h, e + 1)

\* html.replace(/`([^`]+)`/g, "<code>$1</code>")
ReplaceInlineCode(h, i) ==
  IF i > Len(h) THEN <<>>
  ELSE IF ~IsText(h[i])
  THEN <<[h[i] EXCEPT !.kids = ReplaceInlineCode(@, 1)]>> \o ReplaceInlineCode(h, i + 1)
  ELSE ReplaceInlineCodeAt(h, i, CodeSpanClose(h, i))

\* <a href="$2">$1</a>
Link(href, kids) == [tag |-> "a", attr |-> "", kids |-> kids, href |-> href]

\* <img src="$2" alt="$1" />
Img(src, alt) == [tag |-> "img", attr |-> "", kids |-> <<>>, src |-> src, alt |-> alt]

\* the characters of a run of text nodes
Chars(h) == [k \in 1..Len(h) |-> h[k].attr]

\* the first index from i on that holds the character c, every node before
\* it being text (0 when there is none)
RECURSIVE TextUntil(_, _, _)
TextUntil(h, i, c) ==
  IF i > Len(h) \/ ~IsText(h[i]) THEN 0
  ELSE IF h[i].attr = c THEN i
  ELSE TextUntil(h, i + 1, c)

\* \]\(([^)]+)\) with the "]" at k: the index of the ")" (0 when no match)
TargetEnd(h, k) ==
  IF k > 0 /\ k + 1 <= Len(h) /\ IsChar(h[k + 1], "(")
        /\ TextUntil(h, k + 2, ")") > k + 2
  THEN TextUntil(h, k + 2, ")")
  ELSE 0

\* /\[([^\]]+)\]\(([^)]+)\)/g at position i: the index of the "]" (0 when
\* no match)
LinkClose(h, i) ==
  IF IsChar(h[i], "[") /\ TextUntil(h, i + 1, "]") > i + 1
        /\ TargetEnd(h, TextUntil(h, i + 1, "]")) > 0
  THEN TextUntil(h, i + 1, "]")
  ELSE 0

RECURSIVE ReplaceLinks(_, _)
ReplaceLinkAt(h, i, k, m) ==
  <<Link(Chars(SubSeq(h, k + 2, m - 1)), SubSeq(h, i + 1, k - 1))>>
    \o ReplaceLinks(h, m + 1)

\* html.replace(<link regex>, '<a href="$2">$1</a>')
ReplaceLinks(h, i) ==
  IF i > Len(h) THEN <<>>
  ELSE IF ~IsText(h[i])
  THEN <<[h[i] EXCEPT !.kids = ReplaceLinks(@, 1)]>> \o ReplaceLinks(h, i + 1)
  ELSE IF LinkClose(h, i) = 0 THEN <<h[i]>> \o ReplaceLinks(h, i + 1)
  ELSE ReplaceLinkAt(h, i, LinkClose(h, i), TargetEnd(h, LinkClose(h, i)))

\* /!\[([^\]]*)\]\(([^)]+)\)/g at position i: the index of the "]" (0 when
\* no match)
ImageClose(h, i) ==
  IF IsChar(h[i], "!") /\ i + 1 <= Len(h) /\ IsChar(h[i + 1], "[")
        /\ TargetEnd(h, TextUntil(h, i + 2, "]")) > 0
  THEN TextUntil(h, i + 2, "]")
  ELSE 0

RECURSIVE ReplaceImages(_, _)
ReplaceImageAt(h, i, k, m) ==
  <<Img(Chars(SubSeq(h, k + 2, m - 1)), Chars(SubSeq(h, i + 2, k - 1)))>>
    \o ReplaceImages(h, m + 1)

\* html.replace(<image regex>, '<img src="$2" alt="$1" />')
ReplaceImages(h, i) ==
  IF i > Len(h) THEN <<>>
  ELSE IF ~IsText(h[i])
  THEN <<[h[i] EXCEPT !.kids = ReplaceImages(@, 1)]>> \o ReplaceImages(h, i + 1)
  ELSE IF ImageClose(h, i) = 0 THEN <<h[i]>> \o ReplaceImages(h, i + 1)
  ELSE ReplaceImageAt(h, i, ImageClose(h, i), TargetEnd(h, ImageClose(h, i)))

\* html.split(/\n\n+/): the parts between runs of two or more newlines
RECURSIVE NlRunEnd(_, _)
NlRunEnd(h, i) ==
  IF i <= Len(h) /\ IsChar(h[i], NL) THEN NlRunEnd(h, i + 1) ELSE i - 1

RECURSIVE SplitParts(_, _, _)
SplitParts(h, i, cur) ==
  IF i > Len(h) THEN <<cur>>
  ELSE LET e == NlRunEnd(h, i) IN
       IF e >= i + 1 THEN <<cur>> \o SplitParts(h, e + 1, <<>>)
       ELSE SplitParts(h, i + 1, Append(cur, h[i]))

\* parts.map(...): trimmed; dropped when empty; kept when it starts with a
\* tag; wrapped in <p> otherwise
ParagraphPart(part) ==
  LET trimmed == TrimNodes(part) IN
  IF trimmed = <<>> THEN <<>>
  ELSE IF ~IsText(trimmed[1]) THEN trimmed
  ELSE <<Node("p", "", trimmed)>>

RECURSIVE MapParts(_)
MapParts(parts) ==
  IF parts = <<>> THEN <<>>
  ELSE ParagraphPart(Head(parts)) \o MapParts(Tail(parts))

\* /<li>[\s\-]*<\/li>/g
IsStrayLi(n) ==
  /\ n.tag = "li" /\ n.attr = ""
  /\ \A k \in 1..Len(n.kids) : IsWsNode(n.kids[k]) \/ IsChar(n.kids[k], "-")

\* /<ul>\s*<\/ul>/g
IsEmptyUl(n) ==
  n.tag = "ul" /\ n.attr = "" /\ \A k \in 1..Len(n.kids) : IsWsNode(n.kids[k])

RECURSIVE DropStrayLi(_)
DropStrayLi(h) ==
  IF h = <<>> THEN <<>>
  ELSE LET n == Head(h) IN
       IF IsStrayLi(n) THEN DropStrayLi(Tail(h))
       ELSE <<[n EXCEPT !.kids = DropStrayLi(@)]>> \o DropStrayLi(Tail(h))

RECURSIVE DropEmptyUl(_)
DropEmptyUl(h) ==
  IF h = <<>> THEN <<>>
  ELSE LET n == Head(h) IN
       IF IsEmptyUl(n) THEN DropEmptyUl(Tail(h))
       ELSE <<[n EXCEPT !.kids = DropEmptyUl(@)]>> \o DropEmptyUl(Tail(h))

markdownToHtml(markdown) ==
  IF markdown = <<>> THEN <<Node("p", "", <<>>)>>
  ELSE LET hc == ReplaceCodeBlocks(ToNodes(markdown), 1)
           h0 == ReplaceOrdered(ReplaceHeadings(hc, 1), 1)
           h1 == ReplaceTasks(h0, 1, FALSE)
           h2 == ReplaceTasks(h1, 1, TRUE)
           h3 == WrapTaskItems(h2, 1)
           h4 == ReplaceBullets(h3, 1)
           h5 == ReplaceInlineCode(ReplaceStrike(WrapListItems(h4, 1), 1), 1)
           h6 == MapParts(SplitParts(ReplaceImages(ReplaceLinks(h5, 1), 1), 1, <<>>))
       IN  DropEmptyUl(DropStrayLi(h6))

\* html.includes('data-type="taskItem"')
RECURSIVE IncludesTaskItem(_)
IncludesTaskItem(h) ==
  \E k \in 1..Len(h) : IsTaskLi(h[k]) \/ IncludesTaskItem(h[k].kids)

(***************************************************************************)
(* htmlToMarkdown                                                          *)
(***************************************************************************)
\* el.querySelector("input[type='checkbox']"): the input elements below a
\* node, in document order (the first one is the result)
RECURSIVE Checkboxes(_)
Checkboxes(kids) ==
  IF kids = <<>> THEN <<>>
  ELSE (IF Head(kids).tag = "input" THEN <<Head(kids)>> ELSE <<>>)
         \o Checkboxes(Head(kids).kids) \o Checkboxes(Tail(kids))

\* the "#" characters of a heading of level n
Hashes(n) == [k \in 1..n |-> "#"]

\* the level of the tag h1 .. h6
HeadingLevel(tag) == CHOOSE k \in 1..6 : HeadingTags[k] = tag

IsHeadingTag(tag) == \E k \in 1..6 : HeadingTags[k] = tag

\* el.textContent: the characters below a node
RECURSIVE elTextContent(_)
elTextContent(kids) ==
  IF kids = <<>> THEN <<>>
  ELSE (IF IsText(Head(kids)) THEN <<Head(kids).attr>> ELSE elTextContent(Head(kids).kids))
         \o elTextContent(Tail(kids))

\* the index of the first </code></pre> of h (0 when there is none)
RECURSIVE PreCloseFrom(_, _)
PreCloseFrom(h, i) ==
  IF i > Len(h) THEN 0
  ELSE IF h[i].tag = PreClose.tag THEN i
  ELSE PreCloseFrom(h, i + 1)

\* div.innerHTML = html: the nodes that the tags of a code block delimit.
\* On the strings of the model the two tags of a code block lie in one
\* element.
RECURSIVE innerHTML(_)
PreAt(h, c) ==
  IF Head(h).tag = PreOpen.tag /\ c > 0
  THEN <<Node("pre", "", <<Node("code", "", innerHTML(SubSeq(h, 2, c - 1)))>>)>>
         \o innerHTML(SubSeq(h, c + 1, Len(h)))
  ELSE <<[Head(h) EXCEPT !.kids = innerHTML(@)]>> \o innerHTML(Tail(h))

innerHTML(h) == IF h = <<>> THEN <<>> ELSE PreAt(h, PreCloseFrom(h, 2))

RECURSIVE walk(_)
RECURSIVE walkAll(_)
RECURSIVE walkNoInput(_)

\* inner: the children's markdown, concatenated
walkAll(kids) ==
  IF kids = <<>> THEN <<>> ELSE walk(Head(kids)) \o walkAll(Tail(kids))

\* the text of a task item: its child nodes, INPUT children left out
walkNoInput(kids) ==
  IF kids = <<>> THEN <<>>
  ELSE (IF Head(kids).tag = "input" THEN <<>> ELSE walk(Head(kids)))
         \o walkNoInput(Tail(kids))

walk(node) ==
  IF IsText(node) THEN <<node.attr>>
  ELSE LET inner == walkAll(node.kids) IN
       CASE IsHeadingTag(node.tag) /\ node.tag # "h6" ->
              Hashes(HeadingLevel(node.tag)) \o <<" ">> \o Trim(inner) \o <<NL, NL>>
         [] node.tag \in {"h6", "br"} -> <<NL>>
         [] node.tag \in {"strong", "b"} -> <<"*", "*">> \o inner \o <<"*", "*">>
         [] node.tag \in {"em", "i"} -> <<"*">> \o inner \o <<"*">>
         [] node.tag = "u" -> <<"_", "_">> \o inner \o <<"_", "_">>
         [] node.tag \in {"s", "del", "strike"} -> <<"~", "~">> \o inner \o <<"~", "~">>
         [] node.tag = "code" -> <<Backtick>> \o inner \o <<Backtick>>
         [] node.tag = "pre" ->
              <<Backtick, Backtick, Backtick, NL>> \o elTextContent(node.kids)
                \o <<NL, Backtick, Backtick, Backtick, NL, NL>>
         [] node.tag = "blockquote" -> <<">", " ">> \o Trim(inner) \o <<NL, NL>>
         [] node.tag = "p" -> inner \o <<NL, NL>>
         [] node.tag \in {"ul", "ol"} -> inner \o <<NL>>
         [] node.tag = "li" ->
              LET boxes == Checkboxes(node.kids) IN
              IF boxes # <<>>
              THEN LET textContent == Trim(walkNoInput(node.kids)) IN
                   IF boxes[1].attr = "checked"
                   THEN <<"-", " ", "[", "x", "]", " ">> \o textContent \o <<NL>>
                   ELSE <<"-", " ", "[", " ", "]", " ">> \o textContent \o <<NL>>
              ELSE LET trimmedContent == Trim(inner) IN
                   IF trimmedContent # <<>>
                   THEN <<"-", " ">> \o trimmedContent \o <<NL>>
                   ELSE <<>>
         [] node.tag = "input" -> <<>>
         [] node.tag = "a" -> <<"[">> \o inner \o <<"]", "(">> \o node.href \o <<")">>
         [] node.tag = "img" ->
              <<"!", "[">> \o node.alt \o <<"]", "(">> \o node.src \o <<")">>
         [] OTHER -> inner

\* .replace(/\n{3,}/g, "\n\n")
RECURSIVE CollapseNewlines(_, _)
CollapseNewlines(s, i) ==
  IF i > Len(s) THEN <<>>
  ELSE IF s[i] = NL
       THEN LET e == CHOOSE e \in i..Len(s) :
                       /\ \A k \in i..e : s[k] = NL
                       /\ (e = Len(s) \/ s[e + 1] # NL)
            IN  (IF e - i + 1 >= 3 THEN <<NL, NL>> ELSE SubSeq(s, i, e))
                  \o CollapseNewlines(s, e + 1)
       ELSE <<s[i]>> \o CollapseNewlines(s, i + 1)

htmlToMarkdown(html) ==
  IF html = <<>> THEN <<>>
  ELSE CollapseNewlines(Trim(walkAll(innerHTML(html))), 1)

(***************************************************************************)
(* The native document (TipTap / ProseMirror): a sequence of blocks        *)
(*   [type : paragraph | h1 .. h6 | taskItem | listItem | orderedItem,     *)
(*    checked, text]                                                       *)
(***************************************************************************)
Block(type, checked, text) == [type |-> type, checked |-> checked, text |-> text]

Paragraph(text) == Block("paragraph", FALSE, text)

TaskItem(checked, text) == Block("taskItem", checked, text)

\* the characters below a node, a newline read as a space
RECURSIVE TextOf(_)
TextOf(kids) ==
  IF kids = <<>> THEN <<>>
  ELSE (IF IsText(Head(kids))
        THEN <<IF Head(kids).attr = NL THEN " " ELSE Head(kids).attr>>
        ELSE TextOf(Head(kids).kids)) \o TextOf(Tail(kids))

\* an <li> below a list of the given kind (listItem or orderedItem)
LiBlock(n, kind) ==
  IF IsTaskLi(n) THEN TaskItem(n.attr = "taskItem:true", Trim(TextOf(n.kids)))
  ELSE Block(kind, FALSE, Trim(TextOf(n.kids)))

RECURSIVE LiBlocks(_, _)
LiBlocks(kids, kind) ==
  IF kids = <<>> THEN <<>>
  ELSE (IF Head(kids).tag = "li" THEN <<LiBlock(Head(kids), kind)>> ELSE <<>>)
         \o LiBlocks(Tail(kids), kind)

\* text and the inline elements: the schema has no link and no image, so
\* an <a> leaves its text and an <img> nothing
IsInline(n) == IsText(n) \/ n.tag \in {"a", "img"}

RECURSIVE TextRunEnd(_, _)
TextRunEnd(h, i) ==
  IF i <= Len(h) /\ IsInline(h[i]) THEN TextRunEnd(h, i + 1) ELSE i - 1

\* the blocks the editor builds from an HTML string: <p> a paragraph, <hN>
\* a heading, the <li> of a <ul> list or task items, the <li> of an <ol>
\* ordered items, loose text a paragraph, white space between blocks dropped
RECURSIVE ParseBlocks(_, _)
ParseBlocks(h, i) ==
  IF i > Len(h) THEN <<>>
  ELSE LET n == h[i] IN
       IF IsInline(n)
       THEN LET e == TextRunEnd(h, i)
                t == Trim(TextOf(SubSeq(h, i, e)))
            IN  (IF t = <<>> THEN <<>> ELSE <<Paragraph(t)>>) \o ParseBlocks(h, e + 1)
       ELSE (CASE n.tag = "ul" -> LiBlocks(n.kids, "listItem")
               [] n.tag = "ol" -> LiBlocks(n.kids, "orderedItem")
               [] n.tag = "li" -> <<LiBlock(n, "listItem")>>
               [] IsHeadingTag(n.tag) -> <<Block(n.tag, FALSE, TextOf(n.kids))>>
               [] OTHER -> <<Paragraph(TextOf(n.kids))>>) \o ParseBlocks(h, i + 1)

\* editor.commands.setContent(html): the document is rebuilt from html; a
\* document always holds at least one block
ParseHTML(html) ==
  LET blocks == ParseBlocks(html, 1) IN
  IF blocks = <<>> THEN <<Paragraph(<<>>)>> ELSE blocks

\* the <li> that TipTap renders for a list or task item
RenderLi(b) ==
  IF b.type = "taskItem"
  THEN Node("li", IF b.checked THEN "taskItem:true" ELSE "taskItem:false",
            << Node("label", "",
                    << Node("input", IF b.checked THEN "checked" ELSE "", <<>>),
                       Node("span", "", <<>>) >>),
               Node("div", "", <<Node("p", "", ToNodes(b.text))>>) >>)
  ELSE Node("li", "", <<Node("p", "", ToNodes(b.text))>>)

RECURSIVE SameTypeEnd(_, _, _)
SameTypeEnd(doc, i, type) ==
  IF i <= Len(doc) /\ doc[i].type = type THEN SameTypeEnd(doc, i + 1, type) ELSE i - 1

\* editor.getHTML(): neighbouring items of one kind share one list
RECURSIVE getHTMLFrom(_, _)
getHTMLFrom(doc, i) ==
  IF i > Len(doc) THEN <<>>
  ELSE IF doc[i].type = "paragraph"
       THEN <<Node("p", "", ToNodes(doc[i].text))>> \o getHTMLFrom(doc, i + 1)
       ELSE IF IsHeadingTag(doc[i].type)
       THEN <<Node(doc[i].type, "", ToNodes(doc[i].text))>> \o getHTMLFrom(doc, i + 1)
       ELSE LET e == SameTypeEnd(doc, i, doc[i].type) IN
            <<Node(IF doc[i].type = "orderedItem" THEN "ol" ELSE "ul",
                   IF doc[i].type = "taskItem" THEN "taskList" ELSE "",
                   [k \in 1..(e - i + 1) |-> RenderLi(doc[i + k - 1])])>>
              \o getHTMLFrom(doc, e + 1)

getHTML(doc) == getHTMLFrom(doc, 1)

(***************************************************************************)
(* MarkdownPreview of the Editor: the kind of block that one line of the   *)
(* text is rendered as, the tests taken in the order of the loop           *)
(***************************************************************************)
\* s.startsWith(p)
StartsWith(s, p) == Len(s) >= Len(p) /\ SubSeq(s, 1, Len(p)) = p

\* line.match(/!\[(.*?)\]\((.*?)\)/)
imgMatch(line) ==
  \E i, j, k \in 1..Len(line) :
    /\ line[i] = "!" /\ i + 1 < j /\ j + 1 < k
    /\ line[i + 1] = "[" /\ line[j] = "]" /\ line[j + 1] = "(" /\ line[k] = ")"

MarkdownPreviewLine(line) ==
  IF imgMatch(line) THEN Block("image", FALSE, <<>>)
  ELSE IF StartsWith(line, <<"#", " ">>) THEN Block("h1", FALSE, SubSeq(line, 3, Len(line)))
  ELSE IF StartsWith(line, <<"#", "#", " ">>)
       THEN Block("h2", FALSE, SubSeq(line, 4, Len(line)))
  ELSE IF StartsWith(line, <<"#", "#", "#", " ">>)
       THEN Block("h3", FALSE, SubSeq(line, 5, Len(line)))
  ELSE IF StartsWith(Trim(line), <<"[", " ", "]", " ">>)
       THEN TaskItem(FALSE, SubSeq(Trim(line), 5, Len(Trim(line))))
  ELSE IF StartsWith(Trim(line), <<"[", "x", "]", " ">>)
       THEN TaskItem(TRUE, SubSeq(Trim(line), 5, Len(Trim(line))))
  ELSE IF StartsWith(Trim(line), <<"-", " ">>)
       THEN Block("listItem", FALSE, SubSeq(line, 3, Len(line)))
  ELSE IF Len(Trim(line)) >= 3 /\ Trim(line)[1] \in Digits
            /\ \E d \in 2..(Len(Trim(line)) - 1) :
                  /\ \A k \in 1..(d - 1) : Trim(line)[k] \in Digits
                  /\ Trim(line)[d] = "." /\ Trim(line)[d + 1] = " "
       THEN Block("orderedItem", FALSE, line)
  ELSE IF StartsWith(line, <<">", " ">>)
       THEN Block("blockquote", FALSE, SubSeq(line, 3, Len(line)))
  ELSE IF StartsWith(Trim(line), <<Backtick, Backtick, Backtick>>)
       THEN Block("codeBlock", FALSE, <<>>)
  ELSE IF Trim(line) = <<>> THEN Block("empty", FALSE, <<>>)
  ELSE Paragraph(line)

(***************************************************************************)
(* Bounds and inputs                                                       *)
(***************************************************************************)
\* inputs of the user (edits, commands, note switches) in one run
MaxSteps == 3

\* characters in the text of one block of the native document
MaxText == 2

\* blocks of the native document that the user adds to
MaxBlocks == 2

\* const MAX_HISTORY = 50
MAX_HISTORY == 50

\* setTimeout(..., 500) of the autosave is a timer that TimerFire fires

NoteIds == {"A", "B"}

Titles == {"T1", "T2"}

\* characters the user types
TypedChars == {"a"}

\* contents of the stored notes when the session starts
InitialContents ==
  { <<>>,
    <<"a">>,
    <<"-", " ", "[", " ", "]", " ", "a">> }

\* content of the stored note "B" when the session starts
ContentB == <<"-", " ", "[", "x", "]", " ", "b">>

\* actions of the AI menu: "make_todo" takes the branch of "continue",
\* "fix_grammar" the branch of "improve"
AiActions == {"continue", "improve"}

\* results of generateNoteEnhancement
AiResults == { <<"b">> }

\* levels handed to setHeading
HeadingLevels == {2, 3}

\* prefixes handed to insertBlock
BlockPrefixes == { <<"#", " ">>, <<"-", " ">> }

\* the delimiters of markMap, the one of inline code left out (a character
\* outside the alphabet): insertText toggles a mark for them
markMap == { <<"*", "*">>, <<"*">>, <<"_", "_">>, <<"~", "~">> }

\* (before, after) handed to insertText: the link button.  Marks are not
\* part of the document of this model, so no delimiter of markMap is drawn.
TextPairs == { [before |-> <<"[">>, after |-> <<"]", "(", "u", "r", "l", ")">>] }

\* markdown handed to insertMarkdown and setContent
CommandMarkdown == { <<"b">> }

(***************************************************************************)
(* State                                                                   *)
(***************************************************************************)
VARIABLES
  notes,                \* useNotes: id -> [title, content] of the stored notes
  selectedNoteId,       \* App: the note handed to Editor as `note`
  title,                \* Editor: useState(note.title)
  content,              \* Editor: useState(note.content)
  history,              \* Editor: useState([note.content])
  historyIndex,         \* Editor: useState(0), 0-based as in the code
  isAiLoading,          \* Editor: useState(false)
  autosave,             \* the pending autosave timer: <<>> or <<closure>>
  ai,                   \* the pending generateNoteEnhancement: <<>> or <<closure>>
  reader,               \* the FileReader of handleDrop still loading: <<>> or <<closure>>
  mongoId,              \* useNotes: id -> the mongoId of the note, <<>> or <<_id>>
  server,               \* noteService: id -> the contents the server got for the note
  inflight,             \* noteService: the calls sent and not yet answered
  doc,                  \* TipTapEditor: the native document of `editor`
  lastMarkdownRef,      \* TipTapEditor: useRef("")
  isInternalChangeRef,  \* TipTapEditor: useRef(false)
  textarea,             \* first Editor: textareaRef.current, <<>> or <<[start, end]>>
  steps,                \* number of user inputs so far
  ev                    \* what the last step did: [op, calls]

\* the part of useNotes that talks to the server
sync == << mongoId, server, inflight >>

vars == << notes, selectedNoteId, title, content, history, historyIndex,
           isAiLoading, autosave, ai, reader, mongoId, server, inflight, doc,
           lastMarkdownRef,
           isInternalChangeRef, textarea, steps, ev >>

note == notes[selectedNoteId]

\* the editor of useEditor: no instance while the document is <<>>
editor == doc # <<>>

\* history[i] of the code (0-based), undefined ?? "" giving ""
At(h, i) == IF i + 1 \in 1..Len(h) THEN h[i + 1] ELSE <<>>

\* Array.prototype.slice(0, n)
Slice(h, n) == SubSeq(h, 1, IF n < Len(h) THEN n ELSE Len(h))

Max(a, b) == IF a > b THEN a ELSE b

Min(a, b) == IF a < b THEN a ELSE b

(***************************************************************************)
(* Editor                                                                  *)
(***************************************************************************)
\* updateContentWithHistory without the length check
updateContentWithHistory_NoEviction(newContent, closureIndex) ==
  IF newContent = content
  THEN [content |-> content, history |-> history, historyIndex |-> historyIndex]
  ELSE LET base == Append(Slice(history, closureIndex + 1), newContent)
       IN  [content |-> newContent, history |-> base, historyIndex |-> Len(base) - 1]

\* updateContentWithHistory taking the new index before the oldest entry
\* is removed
updateContentWithHistory_IndexBeforeShift(newContent, closureIndex) ==
  IF newContent = content
  THEN [content |-> content, history |-> history, historyIndex |-> historyIndex]
  ELSE LET base == Append(Slice(history, closureIndex + 1), newContent)
           kept == IF Len(base) > MAX_HISTORY THEN Tail(base) ELSE base
       IN  [content |-> newContent, history |-> kept, historyIndex |-> Len(base) - 1]

\* updateContentWithHistory without the comparison with the current content
updateContentWithHistory_NoComparison(newContent, closureIndex) ==
  LET base == Append(Slice(history, closureIndex + 1), newContent)
      kept == IF Len(base) > MAX_HISTORY THEN Tail(base) ELSE base
  IN  [content |-> newContent, history |-> kept, historyIndex |-> Len(kept) - 1]

\* updateContentWithHistory(newContent), called through a closure whose
\* historyIndex is closureIndex; prevContent and prevHistory are the
\* current content and history.  The result is the new Editor state.
updateContentWithHistory(newContent, closureIndex) ==
  IF newContent = content
  THEN [content |-> content, history |-> history, historyIndex |-> historyIndex]
  ELSE LET base == Append(Slice(history, closureIndex + 1), newContent)
           kept == IF Len(base) > MAX_HISTORY THEN Tail(base) ELSE base
       IN  [content |-> newContent, history |-> kept, historyIndex |-> Len(kept) - 1]

\* the closure of the autosave effect
AutosaveTimer(id, t, c, ns) ==
  [id |-> id, title |-> t, content |-> c,
   noteTitle |-> ns[id].title, noteContent |-> ns[id].content]

(***************************************************************************)
(* TipTapEditor                                                            *)
(***************************************************************************)
\* the value-sync effect; markdownToHtml is a new function in every render,
\* so the effect runs after every render.  tt = [doc, last, flag, calls].
ValueSync(tt, value) ==
  IF tt.doc = <<>> THEN tt
  ELSE IF tt.flag
  THEN [doc |-> tt.doc, last |-> value, flag |-> FALSE, calls |-> tt.calls]
  ELSE [doc |-> ParseHTML(markdownToHtml(value)), last |-> value, flag |-> FALSE,
        calls |-> tt.calls \cup {"setContent"}]

\* the suppression test looking for the attribute in the markdown itself
\* instead of in the HTML made from it
OnlyTaskListChanges_RawMarkdown(currentHTML, last) ==
  /\ IncludesTaskItem(currentHTML)
  /\ last # <<>>
  /\ IncludesTaskItem(ToNodes(last))

\* the suppression test of onUpdate
OnlyTaskListChanges(currentHTML, last) ==
  /\ IncludesTaskItem(currentHTML)
  /\ last # <<>>
  /\ IncludesTaskItem(markdownToHtml(last))

TipTap == [doc |-> doc, last |-> lastMarkdownRef, flag |-> isInternalChangeRef,
           calls |-> {}]

\* the autosave effect without its cleanup: a timer that is pending stays
\* the one that fires
Committed_NoClearTimeout(op, t, c, h, x, l, ns, synced, timers) ==
  /\ title' = t
  /\ content' = c
  /\ history' = h
  /\ historyIndex' = x
  /\ isAiLoading' = l
  /\ notes' = ns
  /\ doc' = synced.doc
  /\ lastMarkdownRef' = synced.last
  /\ isInternalChangeRef' = synced.flag
  /\ autosave' = IF (t # title \/ c # content \/ ns # notes) /\ timers = <<>>
                 THEN <<AutosaveTimer(selectedNoteId, t, c, ns)>> ELSE timers
  /\ ev' = [op |-> op, calls |-> synced.calls]

\* the state after a handler: synced is the TipTapEditor state after the
\* value-sync effect (or the one the handler left when nothing was
\* rendered); the autosave effect runs again when one of its dependencies
\* changed
Committed(op, t, c, h, x, l, ns, synced, timers) ==
  /\ title' = t
  /\ content' = c
  /\ history' = h
  /\ historyIndex' = x
  /\ isAiLoading' = l
  /\ notes' = ns
  /\ doc' = synced.doc
  /\ lastMarkdownRef' = synced.last
  /\ isInternalChangeRef' = synced.flag
  /\ autosave' = IF t # title \/ c # content \/ ns # notes
                 THEN <<AutosaveTimer(selectedNoteId, t, c, ns)>> ELSE timers
  /\ ev' = [op |-> op, calls |-> synced.calls]

(***************************************************************************)
(* One render and commit of Editor and, below it, TipTapEditor, after the  *)
(* state (t, c, h, x, l) and the stored notes ns were set by a handler     *)
(* named op.  Nothing is rendered when neither state nor props changed.    *)
(* tt is the TipTapEditor state the handler left, timers the pending       *)
(* autosave timer.                                                         *)
(***************************************************************************)
Commit(op, t, c, h, x, l, ns, tt, timers) ==
  Committed(op, t, c, h, x, l, ns,
            IF \/ <<t, c, h, x, l>> # <<title, content, history, historyIndex, isAiLoading>>
               \/ ns # notes
            THEN ValueSync(tt, c) ELSE tt,
            timers)

\* onChange(newMarkdown): e is what updateContentWithHistory of the last
\* render gives
onChange(op, newDoc, newMarkdown, e) ==
  Commit(op, title, e.content, e.history, e.historyIndex, isAiLoading, notes,
         [doc |-> newDoc, last |-> newMarkdown, flag |-> TRUE, calls |-> {"onChange"}],
         autosave)

\* the lines of onUpdate after the suppression test
Propagate(op, newDoc, newMarkdown) ==
  onChange(op, newDoc, newMarkdown, updateContentWithHistory(newMarkdown, historyIndex))

\* onUpdate with currentHTML = editor.getHTML()
onUpdateHTML(op, newDoc, currentHTML) ==
  IF OnlyTaskListChanges(currentHTML, lastMarkdownRef)
  THEN /\ doc' = newDoc
       /\ ev' = [op |-> op, calls |-> {}]
       /\ UNCHANGED << notes, title, content, history, historyIndex, isAiLoading,
                       autosave, lastMarkdownRef, isInternalChangeRef >>
  ELSE Propagate(op, newDoc, htmlToMarkdown(currentHTML))

\* onUpdate({ editor }) after a transaction that left the document newDoc.
\* useEditor keeps the options of the last render, so onChange is the
\* updateContentWithHistory of the last render of Editor.
onUpdate(op, newDoc) == onUpdateHTML(op, newDoc, getHTML(newDoc))

(***************************************************************************)
(* Init: Editor and TipTapEditor mounted on note "A"                       *)
(***************************************************************************)
\* no token in localStorage: the notes are kept locally, none has a mongoId
\* and no call is made
NoServer ==
  /\ mongoId = [id \in NoteIds |-> <<>>]
  /\ server = [id \in NoteIds |-> <<>>]
  /\ inflight = {}

Init ==
  /\ \E ca \in InitialContents :
       notes = [id \in NoteIds |->
                  IF id = "A" THEN [title |-> "T1", content |-> ca]
                              ELSE [title |-> "T2", content |-> ContentB]]
  /\ selectedNoteId = "A"
  /\ title = note.title
  /\ content = note.content
  /\ history = <<note.content>>
  /\ historyIndex = 0
  /\ isAiLoading = FALSE
  /\ autosave = <<AutosaveTimer("A", note.title, note.content, notes)>>
  /\ ai = <<>>
  /\ reader = <<>>
  /\ NoServer
  /\ doc = ParseHTML(markdownToHtml(note.content))
  /\ lastMarkdownRef = note.content
  /\ isInternalChangeRef = FALSE
  /\ textarea = <<>>
  /\ steps = 0
  /\ ev = [op |-> "mount", calls |-> {"setContent"}]

(***************************************************************************)
(* InitMount: Editor mounted on note "A", TipTapEditor rendered for the    *)
(* first time and useEditor has not created the editor yet                 *)
(***************************************************************************)
InitMount ==
  /\ \E ca \in InitialContents :
       notes = [id \in NoteIds |->
                  IF id = "A" THEN [title |-> "T1", content |-> ca]
                              ELSE [title |-> "T2", content |-> ContentB]]
  /\ selectedNoteId = "A"
  /\ title = note.title
  /\ content = note.content
  /\ history = <<note.content>>
  /\ historyIndex = 0
  /\ isAiLoading = FALSE
  /\ autosave = <<AutosaveTimer("A", note.title, note.content, notes)>>
  /\ ai = <<>>
  /\ reader = <<>>
  /\ NoServer
  /\ doc = <<>>
  /\ lastMarkdownRef = <<>>
  /\ isInternalChangeRef = FALSE
  /\ textarea = <<>>
  /\ steps = 0
  /\ ev = [op |-> "mount", calls |-> {}]

(***************************************************************************)
(* InitTextarea: the first Editor mounted on note "A", with a textarea     *)
(* bound (or none) and a selection in it                                   *)
(***************************************************************************)
\* **bold and *italic* text**
BoldAndItalic ==
  <<"*", "*", "b", "o", "l", "d", " ", "a", "n", "d", " ",
    "*", "i", "t", "a", "l", "i", "c", "*", " ", "t", "e", "x", "t", "*", "*">>

\* contents of the note of the first Editor
TextareaContents ==
  { <<>>,
    <<"a">>,
    <<"*", "*", "a", "*", "*">>,
    <<"*", "*", "*", "a", "*", "*", "*">>,
    BoldAndItalic,
    <<"a", NL, "#", " ", "b">>,
    <<"#", "#", " ", "a">>,
    <<NL, "a">> }

InitTextarea ==
  /\ \E ca \in TextareaContents :
       notes = [id \in NoteIds |->
                  IF id = "A" THEN [title |-> "T1", content |-> ca]
                              ELSE [title |-> "T2", content |-> ContentB]]
  /\ selectedNoteId = "A"
  /\ title = note.title
  /\ content = note.content
  /\ history = <<note.content>>
  /\ historyIndex = 0
  /\ isAiLoading = FALSE
  /\ autosave = <<AutosaveTimer("A", note.title, note.content, notes)>>
  /\ ai = <<>>
  /\ reader = <<>>
  /\ NoServer
  /\ doc = <<>>
  /\ lastMarkdownRef = <<>>
  /\ isInternalChangeRef = FALSE
  /\ \/ textarea = <<>>
     \/ \E start \in 0..Len(content) : \E end \in start..Len(content) :
          textarea = <<[start |-> start, end |-> end]>>
  /\ steps = 0
  /\ ev = [op |-> "mount", calls |-> {}]

(***************************************************************************)
(* InitSession: a session on note "A" that has been going on for a while.  *)
(* The user typed and deleted one character in turn, n - 1 times, then     *)
(* possibly undid every change; the autosave has run and nothing is        *)
(* pending.                                                                *)
(***************************************************************************)
\* lengths of the history of a session in progress
SessionLengths == {3, MAX_HISTORY - 1, MAX_HISTORY}

SessionHistory(n) ==
  [i \in 1..n |-> IF i % 2 = 1 THEN <<"a">> ELSE <<"a", "a">>]

InitSession ==
  /\ \E n \in SessionLengths :
       /\ history = SessionHistory(n)
       /\ historyIndex \in {0, n - 1}
  /\ content = At(history, historyIndex)
  /\ title = "T1"
  /\ notes = [id \in NoteIds |->
                IF id = "A" THEN [title |-> title, content |-> content]
                            ELSE [title |-> "T2", content |-> ContentB]]
  /\ selectedNoteId = "A"
  /\ isAiLoading = FALSE
  /\ autosave = <<>>
  /\ ai = <<>>
  /\ reader = <<>>
  /\ NoServer
  /\ doc = ParseHTML(markdownToHtml(content))
  /\ lastMarkdownRef = content
  /\ isInternalChangeRef = FALSE
  /\ textarea = <<>>
  /\ steps = 0
  /\ ev = [op |-> "TimerFire", calls |-> {}]

(***************************************************************************)
(* The user edits the native document; every transaction that changes the  *)
(* document calls onUpdate                                                 *)
(***************************************************************************)
\* a character typed at the end of block i
TypeText ==
  \E i \in 1..Len(doc), c \in TypedChars :
    /\ steps < MaxSteps
    /\ Len(doc[i].text) < MaxText
    /\ steps' = steps + 1
    /\ onUpdate("TypeText", [doc EXCEPT ![i].text = Append(@, c)])
    /\ UNCHANGED << selectedNoteId, ai, reader, sync, textarea >>

\* the last character of block i deleted
DeleteText ==
  \E i \in 1..Len(doc) :
    /\ steps < MaxSteps
    /\ doc[i].text # <<>>
    /\ steps' = steps + 1
    /\ onUpdate("DeleteText", [doc EXCEPT ![i].text = SubSeq(@, 1, Len(@) - 1)])
    /\ UNCHANGED << selectedNoteId, ai, reader, sync, textarea >>

\* a click on the checkbox of task item i
ToggleCheckbox ==
  \E i \in 1..Len(doc) :
    /\ steps < MaxSteps
    /\ doc[i].type = "taskItem"
    /\ steps' = steps + 1
    /\ onUpdate("ToggleCheckbox", [doc EXCEPT ![i].checked = ~@])
    /\ UNCHANGED << selectedNoteId, ai, reader, sync, textarea >>

\* a new empty paragraph at the end of the document
InsertParagraph ==
  /\ steps < MaxSteps
  /\ editor
  /\ Len(doc) < MaxBlocks
  /\ steps' = steps + 1
  /\ onUpdate("InsertParagraph", Append(doc, Paragraph(<<>>)))
  /\ UNCHANGED << selectedNoteId, ai, reader, sync, textarea >>

\* the last block, empty, removed
RemoveBlock ==
  /\ steps < MaxSteps
  /\ Len(doc) > 1
  /\ doc[Len(doc)].text = <<>>
  /\ steps' = steps + 1
  /\ onUpdate("RemoveBlock", SubSeq(doc, 1, Len(doc) - 1))
  /\ UNCHANGED << selectedNoteId, ai, reader, sync, textarea >>

(***************************************************************************)
(* The commands of the imperative handle, called with the cursor at the    *)
(* end of block i.  A command that dispatches no transaction, or is called *)
(* while there is no editor, returns without a call.                       *)
(***************************************************************************)
\* if (!editor) return;  and a command whose transaction cannot be applied
Return(op) ==
  /\ ev' = [op |-> op, calls |-> {}]
  /\ UNCHANGED << notes, title, content, history, historyIndex, isAiLoading,
                  autosave, doc, lastMarkdownRef, isInternalChangeRef >>

\* toggleTaskList() of the toolbar with the cursor in block i: a paragraph
\* or list item becomes an unchecked task item, a task item a paragraph
ToggleTaskList ==
  /\ steps < MaxSteps
  /\ steps' = steps + 1
  /\ IF ~editor THEN Return("ToggleTaskList")
     ELSE \E i \in 1..Len(doc) :
            onUpdate("ToggleTaskList",
                     [doc EXCEPT ![i] = IF @.type = "taskItem" THEN Paragraph(@.text)
                                        ELSE TaskItem(FALSE, @.text)])
  /\ UNCHANGED << selectedNoteId, ai, reader, sync, textarea >>

\* toggleBulletList(): a list item becomes a paragraph, another block a
\* list item
ToggleBulletList ==
  /\ steps < MaxSteps
  /\ steps' = steps + 1
  /\ IF ~editor THEN Return("ToggleBulletList")
     ELSE \E i \in 1..Len(doc) :
            onUpdate("ToggleBulletList",
                     [doc EXCEPT ![i] = IF @.type = "listItem" THEN Paragraph(@.text)
                                        ELSE Block("listItem", FALSE, @.text)])
  /\ UNCHANGED << selectedNoteId, ai, reader, sync, textarea >>

\* toggleOrderedList(): an ordered item becomes a paragraph, another block
\* an ordered item
ToggleOrderedList ==
  /\ steps < MaxSteps
  /\ steps' = steps + 1
  /\ IF ~editor THEN Return("ToggleOrderedList")
     ELSE \E i \in 1..Len(doc) :
            onUpdate("ToggleOrderedList",
                     [doc EXCEPT ![i] = IF @.type = "orderedItem" THEN Paragraph(@.text)
                                        ELSE Block("orderedItem", FALSE, @.text)])
  /\ UNCHANGED << selectedNoteId, ai, reader, sync, textarea >>

\* setHeading(level): a heading of this level becomes a paragraph, another
\* heading or a paragraph a heading of this level; the first block of a
\* list item stays a paragraph
SetHeading ==
  /\ steps < MaxSteps
  /\ steps' = steps + 1
  /\ IF ~editor THEN Return("SetHeading")
     ELSE \E i \in 1..Len(doc), level \in HeadingLevels :
            IF doc[i].type = HeadingTags[level]
            THEN onUpdate("SetHeading", [doc EXCEPT ![i] = Paragraph(@.text)])
            ELSE IF doc[i].type = "paragraph" \/ IsHeadingTag(doc[i].type)
            THEN onUpdate("SetHeading",
                          [doc EXCEPT ![i] = Block(HeadingTags[level], FALSE, @.text)])
            ELSE Return("SetHeading")
  /\ UNCHANGED << selectedNoteId, ai, reader, sync, textarea >>

\* String.prototype.startsWith and endsWith
EndsWith(s, p) == Len(s) >= Len(p) /\ SubSeq(s, Len(s) - Len(p) + 1, Len(s)) = p

\* newText of the branch of insertText that toggles no mark;
\* slice(before.length, -after.length) is empty when after is ""
newText(selectedText, before, after) ==
  IF /\ StartsWith(selectedText, before)
     /\ EndsWith(selectedText, after)
     /\ Len(selectedText) > Len(before) + Len(after)
  THEN IF after = <<>> THEN <<>>
       ELSE SubSeq(selectedText, Len(before) + 1, Len(selectedText) - Len(after))
  ELSE before \o selectedText \o after

\* insertText(before, after) with the text of block i selected, or nothing
\* selected: the selection is replaced by newText, which is inserted at
\* the cursor when nothing is selected
InsertText ==
  /\ steps < MaxSteps
  /\ steps' = steps + 1
  /\ IF ~editor THEN Return("InsertText")
     ELSE \E i \in 1..Len(doc), pair \in TextPairs :
            \E selectedText \in {<<>>, doc[i].text} :
              /\ pair.before \notin markMap
              /\ onUpdate("InsertText",
                          [doc EXCEPT ![i].text =
                             IF selectedText = <<>>
                             THEN @ \o newText(selectedText, pair.before, pair.after)
                             ELSE newText(selectedText, pair.before, pair.after)])
  /\ UNCHANGED << selectedNoteId, ai, reader, sync, textarea >>

\* insertBlock(prefix): the prefix is inserted at the start of the block,
\* whatever the block starts with
InsertBlock ==
  /\ steps < MaxSteps
  /\ steps' = steps + 1
  /\ IF ~editor THEN Return("InsertBlock")
     ELSE \E i \in 1..Len(doc), prefix \in BlockPrefixes :
            onUpdate("InsertBlock", [doc EXCEPT ![i].text = prefix \o @])
  /\ UNCHANGED << selectedNoteId, ai, reader, sync, textarea >>

\* insertContent(html) with the cursor at the end of block i: the blocks of
\* html take the place of an empty block and follow another one
InsertContent(i, blocks) ==
  SubSeq(doc, 1, IF doc[i].text = <<>> THEN i - 1 ELSE i)
    \o blocks \o SubSeq(doc, i + 1, Len(doc))

\* insertMarkdown(markdown)
InsertMarkdown ==
  /\ steps < MaxSteps
  /\ steps' = steps + 1
  /\ IF ~editor THEN Return("InsertMarkdown")
     ELSE \E i \in 1..Len(doc), markdown \in CommandMarkdown :
            /\ Len(doc) < MaxBlocks
            /\ onUpdate("InsertMarkdown",
                        InsertContent(i, ParseHTML(markdownToHtml(markdown))))
  /\ UNCHANGED << selectedNoteId, ai, reader, sync, textarea >>

\* setContent(markdown) without its first line
SetContent_NoGuard ==
  /\ steps < MaxSteps
  /\ steps' = steps + 1
  /\ \E markdown \in CommandMarkdown :
       /\ doc' = ParseHTML(markdownToHtml(markdown))
       /\ ev' = [op |-> "SetContent", calls |-> {"setContent"}]
       /\ UNCHANGED << notes, title, content, history, historyIndex, isAiLoading,
                       autosave, lastMarkdownRef, isInternalChangeRef >>
  /\ UNCHANGED << selectedNoteId, ai, reader, sync, textarea >>

\* setContent(markdown): editor.commands.setContent(html) replaces the
\* document and emits no update
SetContent ==
  /\ steps < MaxSteps
  /\ steps' = steps + 1
  /\ IF ~editor THEN Return("SetContent")
     ELSE \E markdown \in CommandMarkdown :
            /\ doc' = ParseHTML(markdownToHtml(markdown))
            /\ ev' = [op |-> "SetContent", calls |-> {"setContent"}]
            /\ UNCHANGED << notes, title, content, history, historyIndex, isAiLoading,
                            autosave, lastMarkdownRef, isInternalChangeRef >>
  /\ UNCHANGED << selectedNoteId, ai, reader, sync, textarea >>

\* useEditor creates the editor from the value of its render; TipTapEditor
\* is rendered again and its value-sync effect sets the content
CreateEditor ==
  /\ ~editor
  /\ doc' = ParseHTML(markdownToHtml(content))
  /\ lastMarkdownRef' = content
  /\ isInternalChangeRef' = FALSE
  /\ ev' = [op |-> "CreateEditor", calls |-> {"setContent"}]
  /\ UNCHANGED << notes, selectedNoteId, title, content, history, historyIndex,
                  isAiLoading, autosave, ai, reader, sync, textarea, steps >>

(***************************************************************************)
(* Editor handlers                                                         *)
(***************************************************************************)
\* onChange of the title input: setTitle(e.target.value)
SetTitle ==
  \E t \in Titles :
    /\ steps < MaxSteps
    /\ t # title
    /\ steps' = steps + 1
    /\ Commit("SetTitle", t, content, history, historyIndex, isAiLoading, notes,
              TipTap, autosave)
    /\ UNCHANGED << selectedNoteId, ai, reader, sync, textarea >>

\* undo() without Math.max
Undo_Unclamped ==
  LET newIndex == historyIndex - 1 IN
  /\ steps < MaxSteps
  /\ steps' = steps + 1
  /\ Commit("Undo", title, At(history, newIndex), history, newIndex, isAiLoading,
            notes, TipTap, autosave)
  /\ UNCHANGED << selectedNoteId, ai, reader, sync, textarea >>

\* undo() showing the entry of the index it leaves
Undo_StaleEntry ==
  LET newIndex == Max(0, historyIndex - 1) IN
  /\ steps < MaxSteps
  /\ steps' = steps + 1
  /\ Commit("Undo", title, At(history, historyIndex), history, newIndex, isAiLoading,
            notes, TipTap, autosave)
  /\ UNCHANGED << selectedNoteId, ai, reader, sync, textarea >>

\* undo(): the callback of the last render, so its history is the current one
Undo ==
  LET newIndex == Max(0, historyIndex - 1) IN
  /\ steps < MaxSteps
  /\ steps' = steps + 1
  /\ Commit("Undo", title, At(history, newIndex), history, newIndex, isAiLoading,
            notes, TipTap, autosave)
  /\ UNCHANGED << selectedNoteId, ai, reader, sync, textarea >>

\* redo() showing the entry of the index it leaves
Redo_StaleEntry ==
  LET newIndex == Min(Len(history) - 1, historyIndex + 1) IN
  /\ steps < MaxSteps
  /\ steps' = steps + 1
  /\ Commit("Redo", title, At(history, historyIndex), history, newIndex, isAiLoading,
            notes, TipTap, autosave)
  /\ UNCHANGED << selectedNoteId, ai, reader, sync, textarea >>

\* redo()
Redo ==
  LET newIndex == Min(Len(history) - 1, historyIndex + 1) IN
  /\ steps < MaxSteps
  /\ steps' = steps + 1
  /\ Commit("Redo", title, At(history, newIndex), history, newIndex, isAiLoading,
            notes, TipTap, autosave)
  /\ UNCHANGED << selectedNoteId, ai, reader, sync, textarea >>

\* handleAiAction(action) up to its await: the request keeps the content,
\* the updateContentWithHistory (so the historyIndex) and the note of the
\* render it was started from
AiStart ==
  \E action \in AiActions :
    /\ steps < MaxSteps
    /\ ~isAiLoading
    /\ ai = <<>>
    /\ steps' = steps + 1
    /\ ai' = << [action |-> action, content |-> content,
                 historyIndex |-> historyIndex, noteId |-> selectedNoteId] >>
    /\ Commit("AiStart", title, content, history, historyIndex, TRUE, notes,
              TipTap, autosave)
    /\ UNCHANGED << selectedNoteId, reader, sync, textarea >>

\* the content handleAiAction records for a result: (content || "") + "\n\n"
\* + result for "continue", result for "improve"
AiContent(req, result) ==
  IF req.action = "continue" THEN req.content \o <<NL, NL>> \o result ELSE result

\* handleAiAction after its await, with a result
AiResult ==
  \E result \in AiResults :
    /\ ai # <<>>
    /\ LET req == ai[1]
           e == updateContentWithHistory(AiContent(req, result), req.historyIndex)
       IN  Commit("AiResult", title, e.content, e.history, e.historyIndex, FALSE,
                  notes, TipTap, autosave)
    /\ ai' = <<>>
    /\ UNCHANGED << selectedNoteId, reader, sync, textarea, steps >>

\* handleAiAction after its await, the request failed or gave no result
AiFail ==
  /\ ai # <<>>
  /\ ai' = <<>>
  /\ Commit("AiFail", title, content, history, historyIndex, FALSE, notes,
            TipTap, autosave)
  /\ UNCHANGED << selectedNoteId, reader, sync, textarea, steps >>

\* the autosave timer fires: onUpdate(note.id, { title, content }) when they
\* differ from the note of the render that armed the timer
TimerFire ==
  /\ autosave # <<>>
  /\ LET tm == autosave[1]
         write == tm.title # tm.noteTitle \/ tm.content # tm.noteContent
     IN  Commit("TimerFire", title, content, history, historyIndex, isAiLoading,
                IF write
                THEN [notes EXCEPT ![tm.id] = [title |-> tm.title, content |-> tm.content]]
                ELSE notes,
                [TipTap EXCEPT !.calls = IF write THEN {"onUpdate"} ELSE {}],
                <<>>)
  /\ UNCHANGED << selectedNoteId, ai, reader, sync, textarea, steps >>

\* the note switch with an effect that leaves history and historyIndex as
\* they are
SelectNote_KeepHistory ==
  \E id \in NoteIds :
    /\ steps < MaxSteps
    /\ id # selectedNoteId
    /\ steps' = steps + 1
    /\ selectedNoteId' = id
    /\ title' = notes[id].title
    /\ content' = notes[id].content
    /\ autosave' = <<AutosaveTimer(id, notes[id].title, notes[id].content, notes)>>
    /\ doc' = ParseHTML(markdownToHtml(notes[id].content))
    /\ lastMarkdownRef' = notes[id].content
    /\ isInternalChangeRef' = FALSE
    /\ ev' = [op |-> "SelectNote", calls |-> {"setContent"}]
    /\ UNCHANGED << notes, history, historyIndex, isAiLoading, ai, reader, sync, textarea >>

\* another note is selected: Editor is rendered with the new note and its
\* old state, TipTapEditor is mounted anew (key={note.id}), the note-switch
\* effect sets title, content and history, and the render that follows
\* rebuilds the document and arms the autosave timer
SelectNote ==
  \E id \in NoteIds :
    /\ steps < MaxSteps
    /\ id # selectedNoteId
    /\ steps' = steps + 1
    /\ selectedNoteId' = id
    /\ title' = notes[id].title
    /\ content' = notes[id].content
    /\ history' = <<notes[id].content>>
    /\ historyIndex' = 0
    /\ autosave' = <<AutosaveTimer(id, notes[id].title, notes[id].content, notes)>>
    /\ doc' = ParseHTML(markdownToHtml(notes[id].content))
    /\ lastMarkdownRef' = notes[id].content
    /\ isInternalChangeRef' = FALSE
    /\ ev' = [op |-> "SelectNote", calls |-> {"setContent"}]
    /\ UNCHANGED << notes, isAiLoading, ai, reader, sync, textarea >>

(***************************************************************************)
(* The first Editor: insertText and insertBlock on a textarea.  Its        *)
(* handlers hand the call to the WYSIWYG editor when wysiwygRef.current is *)
(* set; what follows is the rest of each handler, for wysiwygRef.current   *)
(* null.                                                                   *)
(***************************************************************************)
\* String.prototype.substring(a, b): both ends clamped, swapped when a > b
Clamp(s, n) == IF n < 0 THEN 0 ELSE IF n > Len(s) THEN Len(s) ELSE n

substring(s, a, b) ==
  SubSeq(s, Min(Clamp(s, a), Clamp(s, b)) + 1, Max(Clamp(s, a), Clamp(s, b)))

\* const isWrapped = before === marker && after === closeMarker
isWrapped(c, start, end, marker, closeMarker) ==
  /\ substring(c, start - Len(marker), start) = marker
  /\ substring(c, end, end + Len(closeMarker)) = closeMarker

\* charPreBefore === "*" && charPostAfter === "*"
isActuallyInsideBold(c, start, end) ==
  /\ substring(c, start - 2, start - 1) = <<"*">>
  /\ substring(c, end + 1, end + 2) = <<"*">>

\* charPrePreBefore === "*" && charPostPostAfter === "*"
isInsideBoldItalic(c, start, end) ==
  /\ substring(c, start - 3, start - 2) = <<"*">>
  /\ substring(c, end + 2, end + 3) = <<"*">>

\* shouldUnwrap without the collision detection
shouldUnwrap_NoCollisionDetection(c, start, end, marker, closeMarker) ==
  isWrapped(c, start, end, marker, closeMarker)

\* shouldUnwrap after the collision detection
shouldUnwrap(c, start, end, marker, closeMarker) ==
  /\ isWrapped(c, start, end, marker, closeMarker)
  /\ ~( /\ marker = <<"*">>
        /\ isActuallyInsideBold(c, start, end)
        /\ ~isInsideBoldItalic(c, start, end) )

\* newText, newCursorStart and newCursorEnd of insertText
wrapOrUnwrap(c, start, end, marker, closeMarker) ==
  IF shouldUnwrap(c, start, end, marker, closeMarker)
  THEN [text  |-> substring(c, 0, start - Len(marker)) \o substring(c, start, end)
                    \o substring(c, end + Len(closeMarker), Len(c)),
        start |-> start - Len(marker),
        end   |-> end - Len(marker)]
  ELSE [text  |-> substring(c, 0, start) \o marker \o substring(c, start, end)
                    \o closeMarker \o substring(c, end, Len(c)),
        start |-> start + Len(marker),
        end   |-> end + Len(marker)]

\* content.lastIndexOf("\n", from)
lastIndexOf(c, from) ==
  LET found == {k \in 0..Min(Max(from, 0), Len(c) - 1) : c[k + 1] = NL} IN
  IF found = {} THEN -1 ELSE CHOOSE k \in found : \A m \in found : m <= k

\* content.indexOf("\n", from)
indexOf(c, from) ==
  LET found == {k \in Max(from, 0)..(Len(c) - 1) : c[k + 1] = NL} IN
  IF found = {} THEN -1 ELSE CHOOSE k \in found : \A m \in found : k <= m

\* linesContent.split("\n")
RECURSIVE split(_, _)
split(c, cur) ==
  IF c = <<>> THEN <<cur>>
  ELSE IF Head(c) = NL THEN <<cur>> \o split(Tail(c), <<>>)
  ELSE split(Tail(c), Append(cur, Head(c)))

\* newLines.join("\n")
RECURSIVE join(_)
join(lines) ==
  IF Len(lines) = 1 THEN lines[1] ELSE lines[1] \o <<NL>> \o join(Tail(lines))

\* the number of "#" a line starts with
RECURSIVE HashCount(_)
HashCount(line) ==
  IF line # <<>> /\ Head(line) = "#" THEN 1 + HashCount(Tail(line)) ELSE 0

\* line.replace(/^#{1,6}\s/, "")
cleanLine(line, n) ==
  IF n \in 1..6 /\ Len(line) > n /\ line[n + 1] \in Ws
  THEN SubSeq(line, n + 2, Len(line))
  ELSE line

\* the callback of lines.map in insertBlock
newLine(line, prefix) ==
  IF StartsWith(Trim(prefix), <<"#">>)
  THEN IF StartsWith(line, prefix) /\ Len(line) > Len(prefix)
       THEN cleanLine(line, HashCount(line))
       ELSE prefix \o cleanLine(line, HashCount(line))
  ELSE IF StartsWith(line, prefix)
       THEN SubSeq(line, Len(prefix) + 1, Len(line))
       ELSE prefix \o line

newLines(lines, prefix) == [k \in 1..Len(lines) |-> newLine(lines[k], prefix)]

\* lineEnd of insertBlock
lineEndOf(c, end) == IF indexOf(c, end) = -1 THEN Len(c) ELSE indexOf(c, end)

\* newBlock of insertBlock, for the lines from lineStart to lineEnd
newBlock(c, lineStart, lineEnd, prefix) ==
  join(newLines(split(substring(c, lineStart, lineEnd), <<>>), prefix))

\* newText and the cursor of insertBlock, given its newBlock
blockResult(c, lineStart, lineEnd, block) ==
  [text  |-> substring(c, 0, lineStart) \o block \o substring(c, lineEnd, Len(c)),
   start |-> lineStart + Len(block),
   end   |-> lineStart + Len(block)]

\* updateContentWithHistory(newText) and, in the next animation frame,
\* textarea.setSelectionRange(r.start, r.end)
SetText(op, e, r) ==
  /\ Commit(op, title, e.content, e.history, e.historyIndex, isAiLoading, notes,
            TipTap, autosave)
  /\ textarea' = <<[start |-> r.start, end |-> r.end]>>

UpdateText(op, r) == SetText(op, updateContentWithHistory(r.text, historyIndex), r)

\* (marker, closeMarker) handed to insertText
TextareaMarkers ==
  { [op |-> "insertText *", marker |-> <<"*">>, closeMarker |-> <<"*">>],
    [op |-> "insertText **", marker |-> <<"*", "*">>, closeMarker |-> <<"*", "*">>],
    [op |-> "insertText [", marker |-> <<"[">>,
     closeMarker |-> <<"]", "(", "u", "r", "l", ")">>] }

\* prefixes handed to insertBlock
TextareaPrefixes ==
  { [op |-> "insertBlock # ", prefix |-> <<"#", " ">>],
    [op |-> "insertBlock ## ", prefix |-> <<"#", "#", " ">>],
    [op |-> "insertBlock - ", prefix |-> <<"-", " ">>] }

\* insertText(marker, closeMarker)
insertText ==
  /\ steps < MaxSteps
  /\ steps' = steps + 1
  /\ IF textarea = <<>> THEN Return("insertText") /\ UNCHANGED textarea
     ELSE \E m \in TextareaMarkers :
            UpdateText(m.op,
                       wrapOrUnwrap(content, textarea[1].start, textarea[1].end,
                                    m.marker, m.closeMarker))
  /\ UNCHANGED << selectedNoteId, ai, reader, sync >>

\* insertBlock(prefix), lineStart and lineEnd being those of the handler
insertBlockAt(p, lineStart, lineEnd) ==
  UpdateText(p.op,
             blockResult(content, lineStart, lineEnd,
                         newBlock(content, lineStart, lineEnd, p.prefix)))

\* insertBlock(prefix)
insertBlock ==
  /\ steps < MaxSteps
  /\ steps' = steps + 1
  /\ IF textarea = <<>> THEN Return("insertBlock") /\ UNCHANGED textarea
     ELSE \E p \in TextareaPrefixes :
            insertBlockAt(p, lastIndexOf(content, textarea[1].start - 1) + 1,
                          lineEndOf(content, textarea[1].end))
  /\ UNCHANGED << selectedNoteId, ai, reader, sync >>

Next ==
  \/ TypeText \/ DeleteText \/ ToggleCheckbox \/ InsertParagraph \/ RemoveBlock
  \/ ToggleTaskList
  \/ SetTitle \/ Undo \/ Redo
  \/ AiStart \/ AiResult \/ AiFail
  \/ TimerFire \/ SelectNote

Spec == Init /\ [][Next]_vars

\* the same program, from a session in progress
SpecSession == InitSession /\ [][Next]_vars

\* the toolbar at work: every command of the imperative handle, typing,
\* undo and redo, from the first render of TipTapEditor
NextMount ==
  \/ CreateEditor
  \/ TypeText \/ DeleteText \/ ToggleCheckbox
  \/ Undo \/ Redo \/ TimerFire
  \/ ToggleTaskList \/ ToggleBulletList \/ ToggleOrderedList \/ SetHeading
  \/ InsertText \/ InsertBlock \/ InsertMarkdown \/ SetContent

SpecMount == InitMount /\ [][NextMount]_vars

\* the toolbar of the first Editor on its textarea
(***************************************************************************)
(* The codec alone: a note of one or two markdown blocks is decoded by     *)
(* markdownToHtml and the result encoded by htmlToMarkdown                 *)
(***************************************************************************)
\* the texts of the blocks
BlockTexts == { <<"a">>, <<"b">> }

\* the markdown markers of the task items, with the state of the box
TaskMarkers ==
  { [marker |-> <<"-", " ", "[", " ", "]", " ">>, checked |-> FALSE],
    [marker |-> <<"-", " ", "[", "x", "]", " ">>, checked |-> TRUE],
    [marker |-> <<"-", " ", "[", "X", "]", " ">>, checked |-> TRUE] }

\* the markdown markers of the block kinds: paragraph, heading of level 1
\* and 2, bullet item, ordered item, task item unchecked and checked
BlockMarkers ==
  { <<>>, <<"#", " ">>, <<"#", "#", " ">>, <<"-", " ">>, <<"1", ".", " ">> }
    \cup { m.marker : m \in TaskMarkers }

\* one block per line, a marker and a text
BlockLines == { m \o t : m \in BlockMarkers, t \in BlockTexts }

\* the alternative texts and the sources of the images
ImageAlts == { <<>>, <<"x">> }
ImageSrcs == { <<"u", "r", "l">>, <<"u", "(", "r", ")", "l">> }

\* ![alt](src)
ImageMarkdown(alt, src) == <<"!", "[">> \o alt \o <<"]", "(">> \o src \o <<")">>

\* the texts of the code blocks: one line or three, a line being plain, a
\* heading, a task item or struck through
CodeLines ==
  { <<"a">>, <<"#", " ", "a">>, <<"-", " ", "[", " ", "]", " ", "a">>,
    <<"~", "~", "a", "~", "~">> }

CodeTexts == CodeLines \cup { <<"b", NL>> \o l \o <<NL, "b">> : l \in CodeLines }

\* a code block: the text between two fences
Fenced(code) ==
  <<Backtick, Backtick, Backtick, NL>> \o code \o <<NL, Backtick, Backtick, Backtick>>

\* the texts of the code spans: plain, a link, struck through
SpanTexts ==
  { <<"a">>, <<"[", "a", "]", "(", "u", ")">>, <<"~", "~", "a", "~", "~">> }

\* a code span: the text between two backticks
CodeSpan(text) == <<Backtick>> \o text \o <<Backtick>>

\* notes of one block, of two blocks with an empty line between them, of
\* one image, of one code block and of one code span
CodecContents ==
  BlockLines
    \cup { l1 \o <<NL, NL>> \o l2 : l1 \in BlockLines, l2 \in BlockLines }
    \cup { ImageMarkdown(alt, src) : alt \in ImageAlts, src \in ImageSrcs }
    \cup { Fenced(code) : code \in CodeTexts }
    \cup { CodeSpan(text) : text \in SpanTexts }

InitCodec ==
  /\ \E ca \in CodecContents :
       notes = [id \in NoteIds |->
                  IF id = "A" THEN [title |-> "T1", content |-> ca]
                              ELSE [title |-> "T2", content |-> ContentB]]
  /\ selectedNoteId = "A"
  /\ title = note.title
  /\ content = note.content
  /\ history = <<note.content>>
  /\ historyIndex = 0
  /\ isAiLoading = FALSE
  /\ autosave = <<>>
  /\ ai = <<>>
  /\ reader = <<>>
  /\ NoServer
  /\ doc = <<>>
  /\ lastMarkdownRef = <<>>
  /\ isInternalChangeRef = FALSE
  /\ textarea = <<>>
  /\ steps = 0
  /\ ev = [op |-> "mount", calls |-> {}]

\* htmlToMarkdown(markdownToHtml(content))
RoundTrip ==
  /\ steps < MaxSteps /\ steps' = steps + 1
  /\ content' = htmlToMarkdown(markdownToHtml(content))
  /\ ev' = [op |-> "RoundTrip", calls |-> {}]
  /\ UNCHANGED << notes, selectedNoteId, title, history, historyIndex, isAiLoading,
                  autosave, ai, reader, sync, doc, lastMarkdownRef, isInternalChangeRef,
                  textarea >>

NextCodec == RoundTrip

SpecCodec == InitCodec /\ [][NextCodec]_vars

(***************************************************************************)
(* Editor: an image file dropped on the editor                             *)
(***************************************************************************)
\* "\n![" + file.name + "](" + base64 + ")\n"
DroppedImage == <<NL>> \o ImageMarkdown(<<"x">>, <<"u">>) \o <<NL>>

\* handleDrop(e) with an image file: readAsDataURL is started; reader.onload
\* keeps the updateContentWithHistory (so the historyIndex) of the render
\* the drop was handled in
handleDrop ==
  /\ steps < MaxSteps
  /\ reader = <<>>
  /\ steps' = steps + 1
  /\ reader' = << [historyIndex |-> historyIndex] >>
  /\ Return("handleDrop")
  /\ UNCHANGED << selectedNoteId, ai, sync, textarea >>

\* reader.onload: updateContentWithHistory((c) => (c || "") + image)
onload ==
  /\ reader # <<>>
  /\ LET e == updateContentWithHistory(content \o DroppedImage, reader[1].historyIndex)
     IN  Commit("onload", title, e.content, e.history, e.historyIndex, isAiLoading,
                notes, TipTap, autosave)
  /\ reader' = <<>>
  /\ UNCHANGED << selectedNoteId, ai, sync, textarea, steps >>

NextDrop == Next \/ handleDrop \/ onload

SpecDrop == InitSession /\ [][NextDrop]_vars

(***************************************************************************)
(* useNotes: notes added and updated locally and sent to the server in the *)
(* background.  Note "A" was loaded from the server; the calls to the      *)
(* server succeed.                                                         *)
(***************************************************************************)
\* the contents of updateNote(id, { content })
UpdateContents == { <<>>, <<"a">>, <<"b">> }

InitNotes ==
  /\ \E ca \in InitialContents :
       notes = [id \in {"A"} |-> [title |-> "T1", content |-> ca]]
  /\ selectedNoteId = "A"
  /\ title = note.title
  /\ content = note.content
  /\ history = <<note.content>>
  /\ historyIndex = 0
  /\ isAiLoading = FALSE
  /\ autosave = <<>>
  /\ ai = <<>>
  /\ reader = <<>>
  /\ mongoId = [id \in NoteIds |-> IF id = "A" THEN <<id>> ELSE <<>>]
  /\ server = [id \in NoteIds |-> IF id = "A" THEN <<note.content>> ELSE <<>>]
  /\ inflight = {}
  /\ doc = <<>>
  /\ lastMarkdownRef = <<>>
  /\ isInternalChangeRef = FALSE
  /\ textarea = <<>>
  /\ steps = 0
  /\ ev = [op |-> "loadNotes", calls |-> {}]

\* what the actions of useNotes leave alone
EditorUnchanged ==
  UNCHANGED << selectedNoteId, title, content, history, historyIndex, isAiLoading,
               autosave, ai, reader, doc, lastMarkdownRef, isInternalChangeRef,
               textarea >>

\* addNote(): the note is added with empty content and no mongoId, and
\* noteService.createNote is called
addNote ==
  \E id \in NoteIds \ DOMAIN notes :
    /\ steps < MaxSteps
    /\ steps' = steps + 1
    /\ notes' = [k \in DOMAIN notes \cup {id} |->
                   IF k = id THEN [title |-> "", content |-> <<>>] ELSE notes[k]]
    /\ inflight' = inflight \cup {[call |-> "createNote", id |-> id, content |-> <<>>]}
    /\ ev' = [op |-> "addNote", calls |-> {"createNote"}]
    /\ UNCHANGED << mongoId, server >>
    /\ EditorUnchanged

\* createNote is answered: the server holds the note as it was sent, and
\* setNotes gives the local note its mongoId
createNoteAnswered ==
  \E r \in inflight :
    /\ r.call = "createNote"
    /\ server' = [server EXCEPT ![r.id] = <<r.content>>]
    /\ mongoId' = [mongoId EXCEPT ![r.id] = <<r.id>>]
    /\ inflight' = inflight \ {r}
    /\ ev' = [op |-> "createNoteAnswered", calls |-> {}]
    /\ UNCHANGED << notes, steps >>
    /\ EditorUnchanged

\* updateNote(id, { content }): the local note is updated;
\* noteService.updateNote is called when the note of the notes of the last
\* render has a mongoId
updateNote ==
  \E id \in DOMAIN notes : \E c \in UpdateContents :
    /\ steps < MaxSteps
    /\ steps' = steps + 1
    /\ notes' = [notes EXCEPT ![id].content = c]
    /\ IF mongoId[id] # <<>>
       THEN /\ inflight' = inflight \cup {[call |-> "updateNote", id |-> id, content |-> c]}
            /\ ev' = [op |-> "updateNote", calls |-> {"updateNote"}]
       ELSE /\ inflight' = inflight
            /\ ev' = [op |-> "updateNote", calls |-> {}]
    /\ UNCHANGED << mongoId, server >>
    /\ EditorUnchanged

\* updateNote is answered: the server holds the content that was sent
updateNoteAnswered ==
  \E r \in inflight :
    /\ r.call = "updateNote"
    /\ server' = [server EXCEPT ![r.id] = Append(@, r.content)]
    /\ inflight' = inflight \ {r}
    /\ ev' = [op |-> "updateNoteAnswered", calls |-> {}]
    /\ UNCHANGED << notes, mongoId, steps >>
    /\ EditorUnchanged

NextNotes == addNote \/ createNoteAnswered \/ updateNote \/ updateNoteAnswered

\* every call to the server is answered
SpecNotes ==
  /\ InitNotes
  /\ [][NextNotes]_vars
  /\ WF_vars(createNoteAnswered)
  /\ WF_vars(updateNoteAnswered)

NextTextarea == insertText \/ insertBlock

SpecTextarea == InitTextarea /\ [][NextTextarea]_vars

(***************************************************************************)
(* Properties                                                              *)
(***************************************************************************)
\* the markdown bound to the editor holds a task item
BoundHasTaskItem == IncludesTaskItem(markdownToHtml(lastMarkdownRef))

\* C1: when the bound markdown holds a task item and the user only toggles
\* a checkbox, onUpdate calls neither onChange nor setContent: content and
\* history stay as they are and the document keeps the toggled checkbox.
C1_CheckboxToggleSuppressed ==
  [][ (ev'.op = "ToggleCheckbox" /\ BoundHasTaskItem)
        => /\ ev'.calls = {}
           /\ UNCHANGED << content, history, historyIndex, lastMarkdownRef >>
           /\ \E i \in 1..Len(doc) : doc' = [doc EXCEPT ![i].checked = ~@] ]_vars

\* "- [ ] a" is bound, its checkbox was ticked, and nothing was propagated
C1_Witness ==
  /\ ev = [op |-> "ToggleCheckbox", calls |-> {}]
  /\ content = <<"-", " ", "[", " ", "]", " ", "a">>
  /\ history = <<content>>
  /\ doc = <<TaskItem(TRUE, <<"a">>)>>

\* edits of the native document other than a checkbox toggle
StructuralOps == {"TypeText", "DeleteText", "InsertParagraph", "RemoveBlock"}

\* C2: when the accepted markdown and the edited document both hold task
\* items, an edit other than a checkbox toggle is handed to onChange and its
\* markdown becomes the content of the parent.
C2_NonCosmeticEditsPropagate ==
  [][ (/\ ev'.op \in StructuralOps
       /\ BoundHasTaskItem
       /\ IncludesTaskItem(getHTML(doc')))
        => /\ "onChange" \in ev'.calls
           /\ content' = htmlToMarkdown(getHTML(doc')) ]_vars

\* C3: a change of the content that does not come from the editor's own
\* onChange (undo, redo, an AI result, a note switch) rebuilds the native
\* document from the new content.
C3_ExternalUpdateRebuilds ==
  [][ (ev'.op \in {"Undo", "Redo", "AiResult", "SelectNote"} /\ content' # content)
        => /\ "setContent" \in ev'.calls
           /\ doc' = ParseHTML(markdownToHtml(content')) ]_vars

RecordCalled(md) ==
  \/ "onChange" \in ev'.calls /\ md = htmlToMarkdown(getHTML(doc'))
  \/ /\ ev'.op = "AiResult"
     /\ ai # <<>>
     /\ \E result \in AiResults : md = AiContent(ai[1], result)

\* the step recorded a content other than the current one
Recorded == content' # content /\ RecordCalled(content')

\* the historyIndex of the callback that made the record: the current one
\* for a change of the editor, the one of the request for an AI result
RecordIndex ==
  IF ev'.op = "AiResult" /\ ai # <<>> THEN ai[1].historyIndex ELSE historyIndex

\* C5 as stated: the history never holds more than 50 entries, and every
\* record made when it holds 50 removes the oldest entry, keeps the others
\* in their order and makes the new entry the current one.
C5_Original ==
  /\ [](Len(history) <= MAX_HISTORY)
  /\ [][ (Recorded /\ Len(history) = MAX_HISTORY)
           => /\ history' = Append(Tail(history), content')
              /\ historyIndex' = MAX_HISTORY - 1 ]_vars

\* C5, amended: the history never holds more than 50 entries; a record made
\* when it holds 50 from the last index (49) removes the oldest entry, keeps
\* the others in their order and makes the new entry the current one; a
\* record from a lower index drops the entries after that index instead and
\* removes nothing at the front.
C5_HistoryCapacity ==
  /\ [](Len(history) <= MAX_HISTORY)
  /\ [][ (Recorded /\ Len(history) = MAX_HISTORY)
           => IF RecordIndex = MAX_HISTORY - 1
              THEN /\ history' = Append(Tail(history), content')
                   /\ historyIndex' = MAX_HISTORY - 1
              ELSE /\ history' = Append(SubSeq(history, 1, RecordIndex + 1), content')
                   /\ historyIndex' = RecordIndex + 1 ]_vars

\* a change of the editor was recorded on a full history: the oldest entry
\* of SessionHistory(50) is gone
C5_Witness ==
  /\ "onChange" \in ev.calls
  /\ Len(history) = MAX_HISTORY
  /\ historyIndex = MAX_HISTORY - 1
  /\ history[1] = <<"a", "a">>
  /\ history[MAX_HISTORY] = content

\* C6: the history is never empty and the index points into it.
C6_IndexValid ==
  /\ history # <<>>
  /\ historyIndex \in 0..(Len(history) - 1)

\* an AI result was recorded on a full history and the oldest entry removed
C6_Witness ==
  /\ ev.op = "AiResult"
  /\ Len(history) = MAX_HISTORY
  /\ historyIndex = MAX_HISTORY - 1
  /\ history[1] = <<"a", "a">>

\* C7: a record made when the index is below the tail drops every entry
\* after the current index and appends the new one, which becomes the
\* current entry (so [A, B, C] at index 0 and a record of D give [A, D] at
\* index 1).
C7_LinearHistory ==
  [][ (Recorded /\ historyIndex < Len(history) - 1)
        => /\ history' = Append(SubSeq(history, 1, historyIndex + 1), content')
           /\ historyIndex' = historyIndex + 1 ]_vars

\* C8: a record of the markdown that is the entry at the current index
\* changes neither the history nor the index nor the content.
C8_IdempotentRecord ==
  [][ RecordCalled(At(history, historyIndex))
        => UNCHANGED << content, history, historyIndex >> ]_vars

\* onChange was called with the markdown of the current entry: nothing was
\* rendered, so the flag set by onUpdate is still there
C8_Witness ==
  /\ ev = [op |-> "InsertParagraph", calls |-> {"onChange"}]
  /\ isInternalChangeRef
  /\ content = <<"a">>
  /\ Len(doc) = 2

\* C9: undo at index 0 and redo at the last index change neither the
\* history nor the index nor the content.
C9_ExhaustionNoOp ==
  [][ (\/ ev'.op = "Undo" /\ historyIndex = 0
       \/ ev'.op = "Redo" /\ historyIndex = Len(history) - 1)
        => UNCHANGED << content, history, historyIndex >> ]_vars

\* the first input of a session that stood at index 0 of three entries was
\* an undo
C9_Witness ==
  /\ ev.op = "Undo"
  /\ steps = 1
  /\ historyIndex = 0
  /\ Len(history) = 3

\* C10: undo and redo leave the entries of the history alone and call no
\* onChange; undo above index 0 shows the entry below, from which redo
\* leads back to the index and the content before the undo; redo below the
\* last index shows the entry above.
C10_UndoRedoMoveCursor ==
  [][ (ev'.op \in {"Undo", "Redo"})
        => /\ history' = history
           /\ "onChange" \notin ev'.calls
           /\ (ev'.op = "Undo" /\ historyIndex > 0)
                => /\ historyIndex' = historyIndex - 1
                   /\ content' = At(history, historyIndex - 1)
                   /\ At(history', historyIndex' + 1) = content
           /\ (ev'.op = "Redo" /\ historyIndex < Len(history) - 1)
                => /\ historyIndex' = historyIndex + 1
                   /\ content' = At(history, historyIndex + 1) ]_vars

\* an undo from the last of three entries, then a redo
C10_Witness ==
  /\ ev.op = "Redo"
  /\ steps = 2
  /\ Len(history) = 3
  /\ historyIndex = 2
  /\ content = <<"a">>
  /\ autosave # <<>>
  /\ ai = <<>>
  /\ title = "T1"

\* C11: from an empty paragraph, toggleTaskList() and then typed text give
\* the parent the markdown "- [ ] " followed by the typed text.
C11_TaskListThenType ==
  [][ (/\ ev.op = "ToggleTaskList"
       /\ doc = <<TaskItem(FALSE, <<>>)>>
       /\ ev'.op = "TypeText")
        => /\ "onChange" \in ev'.calls
           /\ content' = <<"-", " ", "[", " ", "]", " ">> \o doc'[1].text ]_vars

\* C12: edits of title and content write nothing to the stored notes, they
\* leave one pending timer that carries the latest title and content; when
\* the timer fires it issues one onUpdate with that title and content, and
\* none when they equal the stored note's.
C12_DebouncedAutosave ==
  /\ []( (title # note.title \/ content # note.content)
           => /\ Len(autosave) = 1
              /\ autosave[1].id = selectedNoteId
              /\ autosave[1].title = title
              /\ autosave[1].content = content )
  /\ [][ /\ (ev'.op # "TimerFire") => (notes' = notes /\ "onUpdate" \notin ev'.calls)
         /\ (ev'.op = "TimerFire" /\ title = note.title /\ content = note.content)
               => (notes' = notes /\ "onUpdate" \notin ev'.calls)
         /\ (ev'.op = "TimerFire" /\ (title # note.title \/ content # note.content))
               => /\ "onUpdate" \in ev'.calls
                  /\ notes' = [notes EXCEPT ![selectedNoteId] =
                                  [title |-> title, content |-> content]] ]_vars

\* two edits of the content, then one write of the latest content
C12_Witness ==
  /\ ev.op = "TimerFire"
  /\ "onUpdate" \in ev.calls
  /\ Len(history) = 3
  /\ historyIndex = 2
  /\ note.content = content

\* the commands of the imperative handle that change the document
Commands ==
  { "InsertText", "InsertBlock", "SetHeading", "ToggleBulletList",
    "ToggleOrderedList", "ToggleTaskList", "InsertMarkdown", "SetContent" }

\* C13: a command of the imperative handle called while there is no editor
\* returns at once: it calls neither onChange nor setContent and leaves the
\* markdown, the history and its index, the stored notes, the pending
\* autosave and the state of TipTapEditor (no document, the two refs)
\* unchanged
C13_NoBindingNoEffect ==
  [][ (~editor /\ ev'.op \in Commands)
        => /\ ev'.calls = {}
           /\ UNCHANGED << notes, title, content, history, historyIndex, isAiLoading,
                           autosave, doc, lastMarkdownRef, isInternalChangeRef >> ]_vars

\* a command was called before useEditor created the editor
C13_Witness == ~editor /\ ev.op \in Commands

\* C14: insertText(before, after) decides by the characters outside the
\* selection.  The selection of the model is the whole text of a block, or
\* empty at the end of it, so no delimiter stands outside it and the pair
\* is inserted around the selection, the rest of the document unchanged.
C14_WrapOrUnwrapOutside ==
  [][ (editor /\ ev'.op = "InsertText")
        => \E i \in 1..Len(doc), pair \in TextPairs :
             \/ doc' = [doc EXCEPT ![i].text = pair.before \o @ \o pair.after]
             \/ doc' = [doc EXCEPT ![i].text = @ \o pair.before \o pair.after] ]_vars

\* the selection from offset s to offset e of c stands between "**" and "**"
EnclosedByBold(c, s, e) ==
  /\ s >= 2 /\ SubSeq(c, s - 1, s) = <<"*", "*">>
  /\ e + 2 <= Len(c) /\ SubSeq(c, e + 1, e + 2) = <<"*", "*">>

\* the selection from offset s to offset e of c stands between "***" and "***"
EnclosedByBoldItalic(c, s, e) ==
  /\ s >= 3 /\ SubSeq(c, s - 2, s) = <<"*", "*", "*">>
  /\ e + 3 <= Len(c) /\ SubSeq(c, e + 1, e + 3) = <<"*", "*", "*">>

LineStart(c, pos) ==
  CHOOSE k \in 0..pos :
    /\ k = 0 \/ c[k] = NL
    /\ \A m \in (k + 1)..pos : c[m] # NL

\* the offset at which the line holding offset pos of c ends
LineStop(c, pos) ==
  CHOOSE k \in pos..Len(c) :
    /\ k = Len(c) \/ c[k + 1] = NL
    /\ \A m \in (pos + 1)..k : c[m] # NL

\* a line after the toggle of prefix: the prefix removed when the line
\* starts with it, and otherwise put in front of the line, in the place of
\* the heading marker of the line when the prefix is one
Toggled(line, prefix) ==
  IF StartsWith(line, prefix) THEN SubSeq(line, Len(prefix) + 1, Len(line))
  ELSE IF Head(prefix) = "#" /\ HashCount(line) \in 1..6
          /\ Len(line) > HashCount(line) /\ line[HashCount(line) + 1] = " "
  THEN prefix \o SubSeq(line, HashCount(line) + 2, Len(line))
  ELSE prefix \o line

RECURSIVE LinesOf(_, _, _)
LinesOf(m, i, cur) ==
  IF i > Len(m) THEN (IF cur = <<>> THEN <<>> ELSE <<cur>>)
  ELSE IF m[i] = NL
  THEN (IF cur = <<>> THEN <<>> ELSE <<cur>>) \o LinesOf(m, i + 1, <<>>)
  ELSE LinesOf(m, i + 1, Append(cur, m[i]))

\* the kind and the text of the block a line of markdown is
BlockOf(line) ==
  IF StartsWith(line, <<"-", " ", "[", " ", "]", " ">>)
  THEN [kind |-> "task", checked |-> FALSE, text |-> SubSeq(line, 7, Len(line))]
  ELSE IF StartsWith(line, <<"-", " ", "[", "x", "]", " ">>)
  THEN [kind |-> "task", checked |-> TRUE, text |-> SubSeq(line, 7, Len(line))]
  ELSE IF StartsWith(line, <<"-", " ">>)
  THEN [kind |-> "bullet", checked |-> FALSE, text |-> SubSeq(line, 3, Len(line))]
  ELSE IF StartsWith(line, <<"1", ".", " ">>)
  THEN [kind |-> "ordered", checked |-> FALSE, text |-> SubSeq(line, 4, Len(line))]
  ELSE IF StartsWith(line, <<"#", "#", " ">>)
  THEN [kind |-> "h2", checked |-> FALSE, text |-> SubSeq(line, 4, Len(line))]
  ELSE IF StartsWith(line, <<"#", " ">>)
  THEN [kind |-> "h1", checked |-> FALSE, text |-> SubSeq(line, 3, Len(line))]
  ELSE [kind |-> "paragraph", checked |-> FALSE, text |-> line]

\* the blocks of markdown m
BlocksOf(m) == [k \in 1..Len(LinesOf(m, 1, <<>>)) |-> BlockOf(LinesOf(m, 1, <<>>)[k])]

\* C17: htmlToMarkdown(markdownToHtml(m)) has the blocks of m: the same
\* kinds (heading level, ordered or bullet, checked flag) and texts in the
\* same order
C17_BlockRoundTrip ==
  [][ev'.op = "RoundTrip" => BlocksOf(content') = BlocksOf(content)]_vars

\* the elements with tag t of html h, the nested ones included, in order
RECURSIVE Elements(_, _)
Elements(h, t) ==
  IF h = <<>> THEN <<>>
  ELSE (IF Head(h).tag = t THEN <<Head(h)>> ELSE <<>>)
         \o Elements(Head(h).kids, t) \o Elements(Tail(h), t)

\* C18: markdownToHtml of an image whose source holds parentheses is one
\* image with the whole source, and no link
C18_GreedyImageMatch ==
  [][ \A alt \in ImageAlts : \A src \in ImageSrcs :
        (ev'.op = "RoundTrip" /\ content = ImageMarkdown(alt, src)
           /\ \E k \in 1..Len(src) : src[k] = ")")
          => /\ Elements(markdownToHtml(content), "img") = <<Img(src, alt)>>
             /\ Elements(markdownToHtml(content), "a") = <<>> ]_vars

\* C19: the visible content is the history entry at the current index
C19_ContentIsCurrentEntry ==
  /\ historyIndex \in 0..(Len(history) - 1)
  /\ content = history[historyIndex + 1]

\* a dropped image was recorded as the second entry of the history and is
\* the visible content
C19_Witness ==
  /\ ev.op = "onload"
  /\ Len(history) = 2
  /\ historyIndex = 1
  /\ content = notes[selectedNoteId].content \o DroppedImage

\* the session is the one the note-switch effect leaves for the open note
SessionReset ==
  /\ title = note.title
  /\ content = note.content
  /\ history = <<note.content>>
  /\ historyIndex = 0

\* C20: a note switch leaves the session of the new note, history
\* [note.content] at index 0 with the title and content of the note; from
\* that session undo and redo change none of them, and an autosave that is
\* pending after them holds the title and content of the note
C20_SwitchResetsSession ==
  [][ /\ ev'.op = "SelectNote" => SessionReset'
      /\ (SessionReset /\ ev'.op \in {"Undo", "Redo"})
           => /\ SessionReset'
              /\ UNCHANGED << notes, selectedNoteId >>
              /\ autosave' # <<>>
                   => /\ autosave'[1].id = selectedNoteId
                      /\ autosave'[1].title = note.title
                      /\ autosave'[1].content = note.content ]_vars

\* note "B" was opened from a session of note "A" with more than one
\* entry, and undo is the only step taken since
C20_Witness ==
  /\ ev.op = "Undo"
  /\ steps = 2
  /\ selectedNoteId = "B"
  /\ content = ContentB
  /\ history = <<ContentB>>

C22_SwitchKeepsEdit ==
  [][ (ev'.op = "SelectNote" /\ (title # note.title \/ content # note.content))
        => \/ notes'[selectedNoteId] = [title |-> title, content |-> content]
           \/ \E k \in 1..Len(autosave') :
                /\ autosave'[k].id = selectedNoteId
                /\ autosave'[k].title = title
                /\ autosave'[k].content = content ]_vars

C24_DropRecordsOnLatest ==
  [][ ev'.op = "onload"
        => /\ content' = content \o DroppedImage
           /\ history' = updateContentWithHistory(content \o DroppedImage,
                                                  historyIndex).history
           /\ historyIndex' = Len(history') - 1 ]_vars

\* C25: after an undo, a redo or a note switch that binds the empty
\* markdown in the place of another one, the document of the editor holds
\* no text
C25_EmptyMarkdownEmptiesDocument ==
  [][ (ev'.op \in {"Undo", "Redo", "SelectNote"} /\ content # <<>> /\ content' = <<>>)
        => \A i \in 1..Len(doc') : doc'[i].text = <<>> ]_vars

\* the server got the content the local note id has
Reached(id) ==
  /\ id \in DOMAIN notes
  /\ \E k \in 1..Len(server[id]) : server[id][k] = notes[id].content

\* C26: the content of every local note eventually reaches the server,
\* also when it was set by an updateNote issued before the creation of the
\* note was answered
C26_UpdateReachesServer ==
  \A id \in NoteIds : [](id \in DOMAIN notes => <>Reached(id))

C28_FenceIsVerbatim ==
  [][ \A code \in CodeTexts :
        (ev'.op = "RoundTrip" /\ content = Fenced(code))
          => innerHTML(markdownToHtml(content))
               = <<Node("pre", "", <<Node("code", "", ToNodes(code))>>)>> ]_vars

C30_CodeSpanIsLiteral ==
  [][ \A text \in SpanTexts :
        (ev'.op = "RoundTrip" /\ content = CodeSpan(text))
          => markdownToHtml(content) = <<Node("code", "", ToNodes(text))>> ]_vars

=========================================================================
